---- MODULE Spec2Model ----
(***************************************************************************)
(* FY3200S function-generator driver (src/fy3200s.py) together with the    *)
(* parts of the Qt front end (src/main.py) that call it: the connection    *)
(* toggle, the two measurement polling timers and the waveform upload with *)
(* its progress dialog.                                                    *)
(*                                                                         *)
(* The binary upload (FY3200S.upload_arbitrary) is modelled one transport  *)
(* operation per step: every ser.read is one step whose result is chosen   *)
(* by the transport, every write is part of the step that issues it.       *)
(* Bytes are integers (0x58 = 88 'X', 0x53 = 83 'S', 0x45 = 69 'E',        *)
(* 0x57 = 87 'W', 0x41 = 65 'A').                                          *)
(***************************************************************************)
EXTENDS Integers, Sequences, FiniteSets, TLC

(***************************************************************************)
(* Bounds of the model.                                                    *)
(***************************************************************************)
\* Number of samples of one waveform.  The device takes 2048; the model
\* scales the buffer down so that an upload is a few chunks long.
NumSamples == 8
\* Stray (non-'X') bytes the transport delivers while one chunk waits.
MaxNoise == 2
\* Timer events dispatched by the event loop during one upload call.
MaxPolls == 1
\* Timed out reads that one upload call survives (a ser.read that returns
\* nothing after _read_exact already holds some bytes).
MaxStalls == 1
\* Transports a facade has left open behind it.
MaxOrphans == 2
\* Number of points of the canvas' sample buffer (2048 in the code) and
\* the length the undo stack is kept to (self._max_undo, 200 in the code).
NumPoints == 2
MaxUndo == 1

\* The sample value 1.0 in the units of the model: y_to_value gives values
\* from -Top to Top, and up to three points every interpolated value is a
\* whole number of units.
Top == 2

(***************************************************************************)
(* Program constants.                                                      *)
(***************************************************************************)
chunk_size == 8
MidCode == 2048
MaxCode == 4095

MAGIC == <<68, 68, 83, 95, 87, 65, 86, 69>>
INIT_CTL == 165
ERASE_BASE == 240
BEGIN_BASE == 0
ACK_X == 88
ValidBanks_FromZero == {0, 1, 2, 3, 4}
ValidBanks == {1, 2, 3, 4}

\* Bytes a transport may deliver in the model.
Bytes == {88, 83, 69, 87, 65}
\* Bytes delivered while a chunk waits: the acknowledgment and a stray byte.
AckBytes == {88, 65}

Min(a, b) == IF a < b THEN a ELSE b
Max(a, b) == IF a > b THEN a ELSE b

RECURSIVE SeqsUpTo(_, _)
SeqsUpTo(S, n) ==
  IF n = 0 THEN {<<>>}
  ELSE LET P == SeqsUpTo(S, n - 1)
       IN P \cup {Append(p, b) : p \in {q \in P : Len(q) = n - 1}, b \in S}

AllCtlReads == SeqsUpTo(Bytes, 2)
AllAckReads == SeqsUpTo(AckBytes, chunk_size)

(***************************************************************************)
(* Sample quantisation and payload encoding (upload_arbitrary, 180-201).   *)
(* A sample is an int, a float given as the fraction num/den (den > 0), or *)
(* a value float() rejects.                                                *)
(***************************************************************************)
IntSample(v) == [k |-> "int", num |-> v, den |-> 1]
FloatSample(n, d) == [k |-> "float", num |-> n, den |-> d]
BadSample == [k |-> "bad", num |-> 0, den |-> 1]

\* Python 3 round() of the non-negative fraction p/q: half to even.
RoundDown(p, q) == p \div q
RoundHalfEven(p, q) ==
  LET f == p \div q
      r == p % q
  IN IF 2 * r < q THEN f
     ELSE IF 2 * r > q THEN f + 1
     ELSE IF f % 2 = 0 THEN f ELSE f + 1

Clamp(lo, hi, x) == Max(lo, Min(hi, x))

Quantize(v) ==
  LET n0 == IF v.k = "bad" THEN 0 ELSE v.num
      d == IF v.k = "bad" THEN 1 ELSE v.den
      \* max(-1.0, min(1.0, fv))
      n == Clamp(-d, d, n0)
      \* (fv + 1.0) * 2047.5 = (n + d) * 4095 / (2 d)
      iv == IF v.k = "int" THEN v.num
            ELSE RoundHalfEven((n + d) * MaxCode, 2 * d)
  IN Clamp(0, MaxCode, iv)

\* vals: the first NumSamples codes, padded with the mid-line code.
Vals_NoPad(samples) ==
  [i \in 1..Min(Len(samples), NumSamples) |-> Quantize(samples[i])]

Vals(samples) ==
  [i \in 1..NumSamples |->
     IF i <= Len(samples) THEN Quantize(samples[i]) ELSE MidCode]

\* data: two bytes per code, low byte first.
Encode_HighByteFirst(samples) ==
  LET vals == Vals(samples)
  IN [j \in 1..(2 * Len(vals)) |->
        IF j % 2 = 1 THEN (vals[(j + 1) \div 2] \div 256) % 256
        ELSE vals[j \div 2] % 256]

Encode(samples) ==
  LET vals == Vals(samples)
  IN [j \in 1..(2 * Len(vals)) |->
        IF j % 2 = 1 THEN vals[(j + 1) \div 2] % 256
        ELSE (vals[j \div 2] \div 256) % 256]

\* Input of the uploads of the model: a buffer that mixes integer codes
\* (a ramp whose codes differ from sample to sample) with floats.
Mixed ==
  [i \in 1..NumSamples |->
     IF i % 4 = 0 THEN FloatSample(i - 5, 4) ELSE IntSample((i * 273) % 4096)]
SampleInputs == {Mixed}

(***************************************************************************)
(* State.                                                                  *)
(***************************************************************************)
VARIABLES
  serOpen,     \* self.ser and self.ser.is_open
  freqTimer,   \* MainWindow._freq_timer.isActive()
  countTimer,  \* MainWindow._count_timer.isActive()
  pc,          \* position of upload_arbitrary: idle, hs, erase, begin, ack,
               \* report (inside the progress callback), returned
  bank,        \* argument bank of the call
  obs,         \* argument progress_cb: "none", "ui" (ProgressDialog),
               \* "lib" (a callback of a program that uses the facade) or
               \* "raises" (a callback that raises an Exception)
  data,        \* the encoded payload
  sent,        \* local sent
  acked,       \* local acked
  need,        \* n of the _read_exact in progress
  buf,         \* buf of the _read_exact in progress
  result,      \* "none" while running, else "True" or "False" as
               \* returned, or "RuntimeError" as raised
  failPhase,   \* where the call failed, "none" if it did not
  \* history of the current call
  wire,        \* transport operations since the call began: every write
               \* and flush, the _read_exact of the control phases and the
               \* readline of a poll (the reads of the transfer: stream)
  chunkAcks,   \* per chunk acknowledged: the 'X' bytes read for it
  stream,      \* bytes read since the last chunk was written
  stalls,      \* ser.read calls that returned no byte while a chunk waited
  reports,     \* calls made to the progress observer: <<sent, total>>
  polls,       \* timer events dispatched inside the call
  lastOutcome, \* how the previous upload call ended ("none": no call yet);
               \* kept until the next call's handshake frame is answered
  \* the facade used directly, one operation at a time
  orphans,     \* transports the facade opened, no longer holds, still open
  call,        \* the last facade operation and its arguments
  out,         \* what that operation did on the transport and the clock
  ret,         \* what it returned or raised
  \* the preparation of a payload
  samplesIn,   \* argument samples of upload_arbitrary
  \* the measurement display of the front end
  freqText,    \* MainWindow.measure_freq_input.text()
  countText,   \* MainWindow.measure_count_input.text()
  polled,      \* the last poll handler that ran and the response it got
  \* the input buffer of the transport at the start of an upload
  pending,     \* bytes received before the call and not yet read or dropped
  \* the sweep panel of the front end
  fields,      \* texts of sweep_begin_input, sweep_end_input, sweep_time_input
               \* when a sweep button was last pressed
  \* ArbWaveCanvas
  points,          \* self.points
  tool,            \* self.tool
  panning,         \* self._panning
  line_start,      \* self._line_start: None or (idx, val)
  last_draw_idx,   \* self._last_draw_idx: None or an index
  current_action,  \* self._current_action: None or a dict idx -> old value
  undo_stack,      \* self._undo_stack
  redo_stack,      \* self._redo_stack
  buttons          \* the mouse buttons held down (QMouseEvent.buttons())

vars == <<serOpen, freqTimer, countTimer, pc, bank, obs, data, sent, acked,
          need, buf, result, failPhase, wire, chunkAcks, stream, stalls,
          reports, polls, lastOutcome, orphans, call, out, ret, samplesIn,
          freqText, countText, polled, pending, fields, points, tool,
          panning, line_start, last_draw_idx, current_action, undo_stack,
          redo_stack, buttons>>

\* The state of one upload call and of the front end around it.
uploadVars == <<freqTimer, countTimer, pc, bank, obs, sent, acked, need, buf,
                result, failPhase, wire, chunkAcks, stream, stalls, reports,
                polls, lastOutcome, pending>>

\* The input of the transport around the flush.
flushVars == <<pending>>

\* The registers of the facade used directly.
facadeVars == <<orphans, call, out, ret>>

\* The measurement display.
display == <<freqText, countText, polled>>

\* The waveform canvas and the mouse over it.
canvasVars == <<points, tool, panning, line_start, last_draw_idx,
                current_action, undo_stack, redo_stack, buttons>>

\* What the upload and the front end leave alone.
aside == <<facadeVars, samplesIn, display, fields, canvasVars>>

ui == <<serOpen, freqTimer, countTimer>>

total == Len(data)

Write(by, bytes) == [by |-> by, op |-> "write", bytes |-> bytes]
Read(by, bytes) == [by |-> by, op |-> "read", bytes |-> bytes]
ReadLine(by) == [by |-> by, op |-> "readline", bytes |-> <<>>]
Flush == [by |-> "upload", op |-> "flush", bytes |-> <<>>]

Frame_NoMagic(ctl) == <<ctl>>
Frame(ctl) == MAGIC \o <<ctl>>

\* data[sent : sent + chunk_size]
Chunk_Repeat(s) == SubSeq(data, 1, Min(chunk_size, Len(data)))
Chunk(s) == SubSeq(data, s + 1, Min(s + chunk_size, Len(data)))

\* Number of 0x58 bytes of a byte sequence, and of other bytes (used by the
\* transport's bound and by the histories, not by the driver).
CountX(a) == Cardinality({i \in DOMAIN a : a[i] = 88})
NoiseCount(a) == Len(a) - CountX(a)

\* sum(1 for b in a if b == 0x58)
XCount_AnyByte(a) == Len(a)
XCount(a) == Cardinality({i \in DOMAIN a : a[i] = ACK_X})

\* self._read_exact(1) != b'X'
HandshakeOk_NoCheck(a) == TRUE
HandshakeOk(a) == a = <<88>>

\* self._read_exact(2) != b'SE'
EraseOk_FirstByte(a) == Len(a) >= 1 /\ a[1] = 83
EraseOk(a) == a = <<83, 69>>

\* self._read_exact(1) != b'W'
BeginOk_AnyByte(a) == a # <<>>
BeginOk(a) == a = <<87>>

\* if not a
AckTimedOut_OnStray(a) == a = <<>> \/ NoiseCount(a) > 0
AckTimedOut_Never(a) == FALSE
AckTimedOut(a) == a = <<>>

\* while sent < total
MoreToSend_StopsEarly(s) == s + chunk_size < Len(data)
MoreToSend(s) == s < Len(data)

\* The inner loop ends: not (acked < len(chunk)), for the chunk at s with k
\* acknowledgments counted.
ChunkAcked_AfterFirst(k, s) == k >= 1
ChunkAcked(k, s) == k >= Len(Chunk(s))

\* Size asked of ser.read inside _read_exact: n - len(buf).
ReadRequest_IgnoresCollected == need
ReadRequest == need - Len(buf)

\* _read_exact leaves its loop: the read timed out or buf is full.
ReadExactDone(r) == r = <<>> \/ Len(buf) + Len(r) = need

PumpsEvents(o) == o = "ui"

\* self.ser and self.ser.is_open, as _write_bytes tests it
TransportOpen_Unchecked == TRUE
TransportOpen == serOpen

\* The argument of an operation that takes none.
NoArg == [k |-> "absent", num |-> 0, den |-> 1, txt |-> <<>>]

\* Nothing connected, no call made.
Idle ==
  /\ serOpen = FALSE
  /\ freqTimer = FALSE
  /\ countTimer = FALSE
  /\ pc = "idle"
  /\ bank = 0
  /\ obs = "none"
  /\ data = <<>>
  /\ sent = 0
  /\ acked = 0
  /\ need = 0
  /\ buf = <<>>
  /\ result = "none"
  /\ failPhase = "none"
  /\ wire = <<>>
  /\ chunkAcks = <<>>
  /\ stream = <<>>
  /\ stalls = 0
  /\ reports = <<>>
  /\ polls = 0
  /\ lastOutcome = "none"
  /\ orphans = 0
  /\ call = [op |-> "none", ch |-> 0, arg |-> NoArg]
  /\ out = <<>>
  /\ ret = "None"
  /\ freqText = <<"0">>
  /\ countText = <<"0">>
  /\ polled = [by |-> "none", resp |-> <<>>]
  /\ pending = <<>>
  /\ fields = [begin |-> <<"1", "0", "0", ".", "0", "0">>,
               end |-> <<"1", "0", "0", "0", "0", ".", "0", "0">>,
               time |-> <<"2">>]
  /\ points = [i \in 0..(NumPoints - 1) |-> 0]
  /\ tool = "pen"
  /\ panning = FALSE
  /\ line_start = <<>>
  /\ last_draw_idx = <<>>
  /\ current_action = <<>>
  /\ undo_stack = <<>>
  /\ redo_stack = <<>>
  /\ buttons = {}

Init ==
  /\ Idle
  /\ samplesIn = <<>>

(***************************************************************************)
(* upload_arbitrary (src/fy3200s.py 167-253).                              *)
(***************************************************************************)
\* return False
Fail_ReturnsTrue(phase) ==
  /\ result' = "True"
  /\ failPhase' = phase
  /\ pc' = "returned"

Fail(phase) ==
  /\ result' = "False"
  /\ failPhase' = phase
  /\ pc' = "returned"

\* Head of `while sent < total` with sent = s and the transport log w:
\* write the next chunk and wait for its acknowledgments, or return True.
\* The transport can have been closed only by the observer just called.
LoopHead(s, w) ==
  IF MoreToSend(s)
  THEN IF TransportOpen
       THEN /\ wire' = Append(w, Write("upload", Chunk(s)))
            /\ acked' = 0
            /\ need' = Len(Chunk(s))
            /\ buf' = <<>>
            /\ stream' = <<>>
            /\ pc' = "ack"
            /\ UNCHANGED <<result, failPhase>>
       \* _write_bytes raises, nothing in upload_arbitrary catches it
       ELSE /\ result' = "RuntimeError"
            /\ pc' = "returned"
            /\ wire' = w
            /\ UNCHANGED <<acked, need, buf, stream, failPhase>>
  ELSE /\ result' = "True"
       /\ pc' = "returned"
       /\ wire' = w
       /\ UNCHANGED <<acked, need, buf, stream, failPhase>>

\* The call and everything up to the first blocking read: the two guards,
\* the encoding of the samples, the input flush and the handshake frame.
\* stale: the bytes in the transport's input buffer when the call is made;
\* flushOk: whether reset_input_buffer() returns (it drops them) or raises
\* (the except clause of lines 214-215 passes, and they stay).
UploadCall(b, samples, o, stale, flushOk) ==
  /\ pc = "idle"
  \* The front end always passes the dialog's callback (main.py 356-358);
  \* any other caller is a program without MainWindow's timers.
  /\ o # "ui" => ~freqTimer /\ ~countTimer
  /\ bank' = b
  /\ obs' = o
  /\ sent' = 0
  /\ acked' = 0
  /\ buf' = <<>>
  /\ chunkAcks' = <<>>
  /\ stream' = <<>>
  /\ stalls' = 0
  /\ reports' = <<>>
  /\ polls' = 0
  /\ IF ~serOpen
     THEN /\ Fail("closed")
          /\ wire' = <<>>
          /\ need' = 0
          /\ pending' = <<>>
          /\ UNCHANGED data
     ELSE IF b \notin ValidBanks
     THEN /\ Fail("bank")
          /\ wire' = <<>>
          /\ need' = 0
          /\ pending' = stale
          /\ UNCHANGED data
     ELSE /\ data' = Encode(samples)
          /\ wire' = <<Flush, Write("upload", Frame(INIT_CTL))>>
          /\ pending' = IF flushOk THEN <<>> ELSE stale
          /\ need' = 1
          /\ pc' = "hs"
          /\ result' = "none"
          /\ failPhase' = "none"
  /\ UNCHANGED <<ui, lastOutcome, aside>>

\* One ser.read of the _read_exact(1) after the handshake frame.  A read
\* returns what the input buffer holds before anything that arrives later.
HandshakeAck(r) ==
  /\ pc = "hs"
  /\ Len(r) <= ReadRequest
  /\ pending # <<>> => r = <<Head(pending)>>
  /\ pending' = IF pending # <<>> THEN Tail(pending) ELSE pending
  /\ LET a == buf \o r
         w == Append(wire, Read("upload", a))
     IN
     /\ buf' = <<>>
     /\ IF HandshakeOk(a)
        THEN /\ wire' = Append(w, Write("upload", Frame(ERASE_BASE + bank)))
             /\ need' = 2
             /\ pc' = "erase"
             /\ UNCHANGED <<result, failPhase>>
        ELSE /\ Fail("hs")
             /\ wire' = w
             /\ UNCHANGED need
  /\ lastOutcome' = "none"
  /\ UNCHANGED <<ui, bank, obs, data, sent, acked, chunkAcks, stream, stalls,
                 reports, polls, aside>>

\* One ser.read of the _read_exact(2) after the erase frame.
EraseAck(r) ==
  /\ pc = "erase"
  /\ Len(r) <= ReadRequest
  /\ IF ~ReadExactDone(r)
     THEN /\ buf' = buf \o r
          /\ UNCHANGED <<wire, need, pc, result, failPhase>>
     ELSE LET a == buf \o r
              w == Append(wire, Read("upload", a))
          IN
          /\ buf' = <<>>
          /\ IF EraseOk(a)
             THEN /\ wire' = Append(w, Write("upload", Frame(BEGIN_BASE + bank)))
                  /\ need' = 1
                  /\ pc' = "begin"
                  /\ UNCHANGED <<result, failPhase>>
             ELSE /\ Fail("erase")
                  /\ wire' = w
                  /\ UNCHANGED need
  /\ UNCHANGED <<ui, bank, obs, data, sent, acked, chunkAcks, stream, stalls,
                 reports, polls, lastOutcome, flushVars, aside>>

\* One ser.read of the _read_exact(1) after the begin frame; on 'W' the
\* transfer loop is entered and the first chunk written.
BeginAck(r) ==
  /\ pc = "begin"
  /\ Len(r) <= ReadRequest
  /\ LET a == buf \o r
         w == Append(wire, Read("upload", a))
     IN
     IF BeginOk(a)
     THEN LoopHead(sent, w)
     ELSE /\ Fail("begin")
          /\ wire' = w
          /\ buf' = <<>>
          /\ UNCHANGED <<need, acked, stream>>
  /\ UNCHANGED <<ui, bank, obs, data, sent, chunkAcks, stalls, reports,
                 polls, lastOutcome, flushVars, aside>>

\* report(sent): the observer, when there is one, is told (sent, total).
Report_ChunkLength(s) ==
  IF obs # "none" THEN Append(reports, <<s - sent, total>>) ELSE reports

Report(s) == IF obs # "none" THEN Append(reports, <<s, total>>) ELSE reports

\* One ser.read while a chunk waits for its acknowledgments, with what
\* follows it up to the next read: _read_exact returning, the timeout test,
\* the count of 'X', the end of the chunk and the call of report.
AckRead(r) ==
  /\ r = <<>> /\ buf # <<>> => stalls < MaxStalls
  /\ stalls' = IF r = <<>> THEN stalls + 1 ELSE stalls
  /\ IF ~ReadExactDone(r)
     THEN /\ buf' = buf \o r
          /\ UNCHANGED <<acked, need, sent, reports, chunkAcks, pc, result,
                         failPhase>>
     ELSE LET a == buf \o r
              k == acked + XCount(a)
          IN
          /\ buf' = <<>>
          /\ IF AckTimedOut(a)
             THEN /\ Fail("transfer")
                  /\ UNCHANGED <<acked, need, sent, reports, chunkAcks>>
             ELSE IF ~ChunkAcked(k, sent)
             THEN /\ acked' = k
                  /\ need' = Len(Chunk(sent)) - k
                  /\ UNCHANGED <<sent, reports, chunkAcks, pc, result,
                                 failPhase>>
             ELSE /\ acked' = k
                  /\ sent' = sent + Len(Chunk(sent))
                  /\ reports' = Report(sent + Len(Chunk(sent)))
                  /\ chunkAcks' = Append(chunkAcks, CountX(stream \o r))
                  /\ pc' = "report"
                  /\ UNCHANGED <<need, result, failPhase>>
  /\ UNCHANGED <<ui, bank, obs, data, wire, polls, lastOutcome,
                 flushVars, aside>>

\* The read of a transport that delivers no more than MaxNoise bytes other
\* than 'X' for one chunk; stream keeps every byte read for the chunk.
ChunkAck(r) ==
  /\ pc = "ack"
  /\ Len(r) <= ReadRequest
  /\ NoiseCount(stream \o r) <= MaxNoise
  /\ stream' = stream \o r
  /\ AckRead(r)

\* The read of a transport that may deliver other bytes without end;
\* stream keeps the 'X' bytes read for the chunk only.
NoisyChunkAck(r) ==
  /\ pc = "ack"
  /\ Len(r) <= ReadRequest
  /\ stream' = SelectSeq(stream \o r, LAMBDA b : b = ACK_X)
  /\ AckRead(r)

\* What the call of the observer o raises.
Raised(o) == IF o = "raises" THEN "Exception" ELSE "none"

\* report's handler: except Exception: pass
ReportCatches_Nothing(e) == FALSE
ReportCatches(e) == e = "Exception"

\* The observer returns or raises (or there is none); report returns, and
\* the call is back at the loop head.  What report does not catch leaves
\* upload_arbitrary.
ReportReturn ==
  /\ pc = "report"
  /\ IF Raised(obs) = "none" \/ ReportCatches(Raised(obs))
     THEN LoopHead(sent, wire)
     ELSE /\ result' = Raised(obs)
          /\ pc' = "returned"
          /\ UNCHANGED <<wire, acked, need, buf, stream, failPhase>>
  /\ UNCHANGED <<ui, bank, obs, data, sent, chunkAcks, stalls, reports,
                 polls, lastOutcome, flushVars, aside>>

\* The observer of a program that uses the facade closes the transport
\* (FY3200S.disconnect) while it is being told the progress.  The front
\* end's dialog is modal and its observer cannot: the connect button is
\* out of reach until the dialog is gone.
CallbackDisconnect ==
  /\ pc = "report"
  /\ obs = "lib"
  /\ serOpen
  /\ serOpen' = FALSE
  /\ UNCHANGED <<uploadVars, data, aside>>

\* How the call ended: "ok", "raised", or the phase in which it returned
\* False.
Outcome ==
  IF result = "True" THEN "ok"
  ELSE IF result = "RuntimeError" THEN "raised"
  ELSE failPhase

\* The caller takes the result (ArbWaveTab._upload_waveform: dlg.finish);
\* the locals of the call are gone.
UploadReturn ==
  /\ pc = "returned"
  /\ pc' = "idle"
  /\ bank' = 0
  /\ obs' = "none"
  /\ data' = <<>>
  /\ sent' = 0
  /\ acked' = 0
  /\ need' = 0
  /\ buf' = <<>>
  /\ result' = "none"
  /\ failPhase' = "none"
  /\ wire' = <<>>
  /\ chunkAcks' = <<>>
  /\ stream' = <<>>
  /\ stalls' = 0
  /\ reports' = <<>>
  /\ polls' = 0
  /\ lastOutcome' = Outcome
  /\ pending' = <<>>
  /\ UNCHANGED <<ui, aside>>

(***************************************************************************)
(* The front end (src/main.py).                                            *)
(***************************************************************************)
\* MainWindow.toggle_connection; ok: whether serial.Serial() opens the port.
ToggleConnection(ok) ==
  /\ pc = "idle"
  /\ serOpen' = IF serOpen THEN FALSE ELSE ok
  /\ UNCHANGED <<freqTimer, countTimer, pc, bank, obs, data, sent, acked,
                 need, buf, result, failPhase, wire, chunkAcks, stream,
                 stalls, reports, polls, lastOutcome, flushVars, aside>>

ToggleMeasureFrequency ==
  /\ pc = "idle"
  /\ freqTimer' = IF freqTimer THEN FALSE ELSE serOpen
  /\ UNCHANGED <<serOpen, countTimer, pc, bank, obs, data, sent, acked, need,
                 buf, result, failPhase, wire, chunkAcks, stream, stalls,
                 reports, polls, lastOutcome, flushVars, aside>>

ToggleMeasureCount ==
  /\ pc = "idle"
  /\ countTimer' = IF countTimer THEN FALSE ELSE serOpen
  /\ UNCHANGED <<serOpen, freqTimer, pc, bank, obs, data, sent, acked, need,
                 buf, result, failPhase, wire, chunkAcks, stream, stalls,
                 reports, polls, lastOutcome, flushVars, aside>>

\* The event loop may dispatch a timer event: between handlers, and inside
\* ProgressDialog.set_progress, which calls QApplication.processEvents().
Dispatching == pc = "idle" \/ (pc = "report" /\ PumpsEvents(obs))

\* A poll handler running measure_frequency / measure_count: the command
\* cmd is sent and one response line read.  Only the handler's use of the
\* transport during an upload call is state here; the text it displays is
\* that of ShowFrequency and ShowCount below.
Poll(cmd) ==
  /\ Dispatching
  /\ IF serOpen /\ pc = "report"
     THEN /\ polls < MaxPolls
          /\ wire' = wire \o <<Write("poll", cmd), ReadLine("poll")>>
          /\ polls' = polls + 1
     ELSE UNCHANGED <<wire, polls>>
  /\ UNCHANGED <<ui, pc, bank, obs, data, sent, acked, need, buf, result,
                 failPhase, chunkAcks, stream, stalls, reports, lastOutcome,
                 flushVars, aside>>

\* "ce\n"
PollMeasureFrequency == freqTimer /\ Poll(<<99, 101, 10>>)

\* "cc\n"
PollMeasureCount == countTimer /\ Poll(<<99, 99, 10>>)

(***************************************************************************)
(* The facade used directly (src/fy3200s.py 12-148, 256-277): one          *)
(* operation per step.  Text is a sequence of one-character strings.       *)
(* An argument is an int, a float (the fraction num/den, with the text     *)
(* str() gives for it), a str, or None.                                    *)
(***************************************************************************)
NoneArg == [k |-> "none", num |-> 0, den |-> 1, txt |-> <<"N", "o", "n", "e">>]

Digit(d) == <<"0", "1", "2", "3", "4", "5", "6", "7", "8", "9">>[d + 1]

\* The decimal digits of n >= 0.
RECURSIVE Digits(_)
Digits(n) ==
  IF n < 10 THEN <<Digit(n)>> ELSE Append(Digits(n \div 10), Digit(n % 10))

Abs(n) == IF n < 0 THEN -n ELSE n
Sign(n) == IF n < 0 THEN <<"-">> ELSE <<>>

\* str(n) of an int
Str(n) == Sign(n) \o Digits(Abs(n))

Zeros(n) == [i \in 1..n |-> "0"]

\* format(n, "0{w}d") of an int: filled with zeros after the sign up to the
\* width w, never cut.
ZeroPad(n, w) ==
  Sign(n) \o Zeros(Max(0, w - Len(Sign(n)) - Len(Digits(Abs(n)))))
          \o Digits(Abs(n))

\* format(num/den, ".2f")
Fixed2(num, den) ==
  LET h == RoundHalfEven(Abs(num) * 100, den)
  IN Sign(num) \o Digits(h \div 100) \o <<".">>
       \o <<Digit((h % 100) \div 10), Digit(h % 10)>>

IntArg(n) == [k |-> "int", num |-> n, den |-> 1, txt |-> Str(n)]
FloatArg(n, d, t) == [k |-> "float", num |-> n, den |-> d, txt |-> t]
\* A str whose text is a decimal integer, and one that is no number.
NumStrArg(n) == [k |-> "numstr", num |-> n, den |-> 1, txt |-> Str(n)]
StrArg(t) == [k |-> "str", num |-> 0, den |-> 1, txt |-> t]

\* What evaluating an expression gives: a text, or the error raised.
Text(t) == [err |-> "none", text |-> t]
Raises(e) == [err |-> e, text |-> <<>>]

\* f"{v:0{w}d}": only an int takes the format code d.
FormatD(v, w) ==
  IF v.k = "int" THEN Text(ZeroPad(v.num, w))
  ELSE IF v.k = "none" THEN Raises("TypeError")
  ELSE Raises("ValueError")

\* f"{v:.2f}": an int or a float.
FormatF(v) ==
  IF v.k \in {"int", "float"} THEN Text(Fixed2(v.num, v.den))
  ELSE IF v.k = "none" THEN Raises("TypeError")
  ELSE Raises("ValueError")

\* f"{v}"
FormatPlain(v) == Text(v.txt)

\* int(v): a float is cut towards zero, a str is parsed.
ToInt(v) ==
  IF v.k \in {"int", "numstr"} THEN [err |-> "none", n |-> v.num]
  ELSE IF v.k = "float"
    THEN [err |-> "none",
          n |-> IF v.num < 0 THEN -((-v.num) \div v.den) ELSE v.num \div v.den]
  ELSE IF v.k = "none" THEN [err |-> "TypeError", n |-> 0]
  ELSE [err |-> "ValueError", n |-> 0]

\* v in (0, 1, ..., hi): equality with one of the ints.
InTuple(v, hi) ==
  /\ v.k \in {"int", "float"}
  /\ v.num % v.den = 0
  /\ (v.num \div v.den) \in 0..hi

\* 'b' if channel == 1 else 'd'
Prefix(channel) == IF channel = 1 THEN <<"b">> ELSE <<"d">>

WriteText(t) == [op |-> "write", text |-> t]
Sleep == [op |-> "sleep", text |-> <<>>]
ReadLineOp == [op |-> "readline", text |-> <<>>]

\* send_command: the text and a newline, then the settle delay; nothing
\* when no transport is open.
SendCommand_Unchecked(cmd) == <<WriteText(Append(cmd, "\n")), Sleep>>
SendCommand_NoSettle(cmd) ==
  IF serOpen THEN <<WriteText(Append(cmd, "\n"))>> ELSE <<>>
SendCommand(cmd) ==
  IF serOpen THEN <<WriteText(Append(cmd, "\n")), Sleep>> ELSE <<>>

\* read_response: one line, or None when no transport is open.
ReadResponse == IF serOpen THEN <<ReadLineOp>> ELSE <<>>
Response == IF serOpen THEN "line" ELSE "None"

\* One facade operation c whose effect on the transport is the trace e and
\* whose outcome is r.
Does(c, e, r) ==
  /\ call' = c
  /\ out' = e
  /\ ret' = r
  /\ UNCHANGED <<serOpen, orphans, uploadVars, data, samplesIn, display,
                 fields, canvasVars>>

\* A setter that formats its value (f a text or an error) and sends it.
Sends(c, head, f) ==
  IF f.err = "none" THEN Does(c, SendCommand(head \o f.text), "None")
  ELSE Does(c, <<>>, f.err)

Op(name, channel, v) == [op |-> name, ch |-> channel, arg |-> v]

(***************************************************************************)
(* The preparation of the payload (upload_arbitrary 180-203) by itself,    *)
(* for sample buffers of every length from none to more than the device    *)
(* takes.                                                                  *)
(***************************************************************************)
\* The i-th sample of the buffers of the model.  Floats are fractions whose
\* denominator is a power of two, which the floating-point arithmetic of
\* the quantisation treats exactly.
Gen(g, i) ==
  CASE g = "ramp" -> FloatSample(i - 5, 4)
    [] g = "wide" -> FloatSample(2 * i - 8, 2)
    [] g = "ends" -> FloatSample((i % 3) - 1, 1)
    [] g = "fine" -> FloatSample(5 * i - 24, 16)
    [] g = "ints" -> IntSample(1024 * i - 2048)
    [] g = "bad" -> IF i % 2 = 1 THEN BadSample ELSE IntSample(4095)
    [] OTHER -> IF i % 4 = 0 THEN FloatSample(i - 5, 4)
                ELSE IntSample((i * 273) % 4096)

Gens == {"ramp", "wide", "ends", "fine", "ints", "bad", "mixed"}

Buffers ==
  {[i \in 1..n |-> Gen(g, i)] : g \in Gens, n \in 0..(NumSamples + 2)}

EncInit ==
  /\ Idle
  /\ samplesIn \in Buffers

\* vals and data are built from the samples.
Prepare ==
  /\ data = <<>>
  /\ data' = Encode(samplesIn)
  /\ UNCHANGED <<serOpen, uploadVars, facadeVars, samplesIn, display,
                 fields, canvasVars>>

EncNext == Prepare

EncSpec == EncInit /\ [][EncNext]_vars

(***************************************************************************)
(* The poll handlers of the front end between uploads (src/main.py         *)
(* 853-888): the response line is searched for a number, which is shown.   *)
(* A response is the text read_response returns, already stripped.         *)
(***************************************************************************)
IsDigitCh(c) == c \in {"0", "1", "2", "3", "4", "5", "6", "7", "8", "9"}
IsSignCh(c) == c \in {"+", "-"}
DigitValue(c) == CHOOSE d \in 0..9 : Digit(d) = c

\* The position after the longest run of digits of t that begins at p.
RECURSIVE DigitsEnd(_, _)
DigitsEnd(t, p) ==
  IF p <= Len(t) /\ IsDigitCh(t[p]) THEN DigitsEnd(t, p + 1) ELSE p

\* The number a sequence of digits writes (0 for none).
RECURSIVE DigitsValue(_)
DigitsValue(ds) ==
  IF ds = <<>> THEN 0
  ELSE 10 * DigitsValue(SubSeq(ds, 1, Len(ds) - 1)) + DigitValue(ds[Len(ds)])

RECURSIVE Pow10(_)
Pow10(n) == IF n <= 0 THEN 1 ELSE 10 * Pow10(n - 1)

\* [0-9]*\.?[0-9]+ matched at p: the position after the match, 0 for no
\* match.  The digits, then a point only when a digit follows it.
MantissaEnd_NoFraction(t, p) == IF DigitsEnd(t, p) > p THEN DigitsEnd(t, p) ELSE 0
MantissaEnd(t, p) ==
  LET a == DigitsEnd(t, p)
  IN IF a <= Len(t) /\ t[a] = "." /\ DigitsEnd(t, a + 1) > a + 1
     THEN DigitsEnd(t, a + 1)
     ELSE IF a > p THEN a ELSE 0

\* (?:[eE][-+]?[0-9]+)? matched at q: the position after it (q for none).
ExponentEnd(t, q) ==
  IF q <= Len(t) /\ t[q] \in {"e", "E"}
  THEN LET r == IF q + 1 <= Len(t) /\ IsSignCh(t[q + 1]) THEN q + 2 ELSE q + 1
       IN IF DigitsEnd(t, r) > r THEN DigitsEnd(t, r) ELSE q
  ELSE q

\* The frequency pattern matched at s: the position after the match, 0 for
\* no match.
FloatMatchEnd(t, s) ==
  IF s <= Len(t) /\ IsSignCh(t[s]) /\ MantissaEnd(t, s + 1) # 0
  THEN ExponentEnd(t, MantissaEnd(t, s + 1))
  ELSE IF MantissaEnd(t, s) # 0 THEN ExponentEnd(t, MantissaEnd(t, s))
  ELSE 0

\* [-+]?[0-9]+ matched at s.
IntMatchEnd_Unsigned(t, s) == IF DigitsEnd(t, s) > s THEN DigitsEnd(t, s) ELSE 0
IntMatchEnd(t, s) ==
  IF s <= Len(t) /\ IsSignCh(t[s]) /\ DigitsEnd(t, s + 1) > s + 1
  THEN DigitsEnd(t, s + 1)
  ELSE IF DigitsEnd(t, s) > s THEN DigitsEnd(t, s)
  ELSE 0

\* re.search of the pattern pat ("float": the frequency pattern, "int": the
\* count pattern): the match at the leftmost position that has one, as
\* [found, token].
Search(pat, t) ==
  LET MatchEnd(s) ==
        IF pat = "float" THEN FloatMatchEnd(t, s) ELSE IntMatchEnd(t, s)
      starts == {s \in 1..Len(t) : MatchEnd(s) # 0}
  IN IF starts = {} THEN [found |-> FALSE, token |-> <<>>]
     ELSE LET s == CHOOSE x \in starts : \A y \in starts : x <= y
          IN [found |-> TRUE, token |-> SubSeq(t, s, MatchEnd(s) - 1)]

\* float(token) of a token of the frequency pattern, as the fraction
\* num/den.
ParseFloat(tok) ==
  LET neg == tok[1] = "-"
      p == IF IsSignCh(tok[1]) THEN 2 ELSE 1
      a == DigitsEnd(tok, p)
      b == IF a <= Len(tok) /\ tok[a] = "." THEN DigitsEnd(tok, a + 1) ELSE a
      frac == IF b > a THEN SubSeq(tok, a + 1, b - 1) ELSE <<>>
      mant == DigitsValue(SubSeq(tok, p, a - 1) \o frac)
      eneg == b + 1 <= Len(tok) /\ tok[b + 1] = "-"
      ep == IF b + 1 <= Len(tok) /\ IsSignCh(tok[b + 1]) THEN b + 2 ELSE b + 1
      e == IF b <= Len(tok) THEN DigitsValue(SubSeq(tok, ep, Len(tok))) ELSE 0
      scale == (IF eneg THEN -e ELSE e) - Len(frac)
  IN [num |-> (IF neg THEN -mant ELSE mant) * Pow10(scale),
      den |-> Pow10(-scale)]

\* int(token) of a token of the count pattern.
ParseInt(tok) ==
  IF tok[1] = "-" THEN -DigitsValue(Tail(tok))
  ELSE IF tok[1] = "+" THEN DigitsValue(Tail(tok))
  ELSE DigitsValue(tok)

\* What _poll_measure_frequency shows for the response resp: the first
\* number, taken as centihertz, in hertz with two decimals; resp itself
\* when it holds none.
FrequencyText(resp) ==
  LET m == Search("float", resp)
  IN IF ~m.found THEN resp
     ELSE Fixed2(ParseFloat(m.token).num, ParseFloat(m.token).den * 100)

\* What _poll_measure_count shows.
CountText(resp) ==
  LET m == Search("int", resp)
  IN IF ~m.found THEN resp ELSE Str(ParseInt(m.token))

\* _poll_measure_frequency, run by its timer between uploads, with the
\* response line resp of the device.  Without an open transport the handler
\* returns before it asks (there is no response: None).  The command it
\* sends is that of Poll; no record of the wire is kept between uploads.
ShowFrequency(resp) ==
  /\ pc = "idle"
  /\ freqTimer
  /\ IF ~serOpen
     THEN /\ polled' = [by |-> "frequency", resp |-> <<"N", "o", "n", "e">>]
          /\ UNCHANGED <<freqText, countText>>
     ELSE /\ polled' = [by |-> "frequency", resp |-> resp]
          /\ freqText' = FrequencyText(resp)
          /\ UNCHANGED countText
  /\ UNCHANGED <<serOpen, uploadVars, data, facadeVars, samplesIn,
                 fields, canvasVars>>

\* _poll_measure_count, run by its timer between uploads.
ShowCount(resp) ==
  /\ pc = "idle"
  /\ countTimer
  /\ IF ~serOpen
     THEN /\ polled' = [by |-> "count", resp |-> <<"N", "o", "n", "e">>]
          /\ UNCHANGED <<freqText, countText>>
     ELSE /\ polled' = [by |-> "count", resp |-> resp]
          /\ countText' = CountText(resp)
          /\ UNCHANGED freqText
  /\ UNCHANGED <<serOpen, uploadVars, data, facadeVars, samplesIn,
                 fields, canvasVars>>

\* The response lines of the model.
Responses ==
  {<<"1", "2", "3", "4", "5", " ", "H", "z">>,
   <<"c", "o", "u", "n", "t", "=", "7", "7">>,
   <<"E", "R", "R">>,
   <<>>,
   <<"-", "5", "0">>,
   <<"+", "-", "5">>,
   <<"1", ".", "5", "e", "3">>,
   <<"7", ".">>,
   <<"x", ".", "2", "5">>,
   <<"1", "2", ".", "5">>,
   <<"2", "e">>,
   <<"1", "e", "-", "2">>,
   <<"0", "0", "7">>,
   <<"5", "e", "+", "2">>,
   <<"a", "-", "b">>}

PollNext ==
  \/ \E ok \in BOOLEAN : ToggleConnection(ok)
  \/ ToggleMeasureFrequency
  \/ ToggleMeasureCount
  \/ \E r \in Responses : ShowFrequency(r)
  \/ \E r \in Responses : ShowCount(r)

PollSpec == Init /\ [][PollNext]_vars

(***************************************************************************)
(* The sweep panel of the front end (src/main.py 787-829).  The texts of   *)
(* the model hold no underscore and no upper-case letter, and the numbers  *)
(* they write are doubles whose product with 100 is exact.                 *)
(***************************************************************************)
\* str.strip() as float() and int() apply it to blanks.
RECURSIVE Strip(_)
Strip(t) ==
  IF t # <<>> /\ Head(t) = " " THEN Strip(Tail(t))
  ELSE IF t # <<>> /\ t[Len(t)] = " " THEN Strip(SubSeq(t, 1, Len(t) - 1))
  ELSE t

\* float(text): a finite number num/den, an infinity, a NaN, or ValueError.
\* A float literal is a sign, digits with at most one point and at least
\* one digit, and an exponent.
FloatOf(text) ==
  LET s == Strip(text)
      body == IF s # <<>> /\ IsSignCh(s[1]) THEN Tail(s) ELSE s
      p == IF s # <<>> /\ IsSignCh(s[1]) THEN 2 ELSE 1
      a == DigitsEnd(s, p)
      point == a <= Len(s) /\ s[a] = "."
      b == IF point THEN DigitsEnd(s, a + 1) ELSE a
      nd == (a - p) + (IF point THEN b - a - 1 ELSE 0)
  IN IF body \in {<<"i", "n", "f">>, <<"i", "n", "f", "i", "n", "i", "t", "y">>}
     THEN [err |-> "none", k |-> "inf", num |-> 0, den |-> 1]
     ELSE IF body = <<"n", "a", "n">>
     THEN [err |-> "none", k |-> "nan", num |-> 0, den |-> 1]
     ELSE IF nd >= 1 /\ ExponentEnd(s, b) = Len(s) + 1
     THEN [err |-> "none", k |-> "finite", num |-> ParseFloat(s).num,
           den |-> ParseFloat(s).den]
     ELSE [err |-> "ValueError", k |-> "none", num |-> 0, den |-> 1]

\* int(text): a sign and digits, or ValueError.
IntOf(text) ==
  LET s == Strip(text)
  IN IF s # <<>> /\ IntMatchEnd(s, 1) = Len(s) + 1
     THEN [err |-> "none", n |-> ParseInt(s)]
     ELSE [err |-> "ValueError", n |-> 0]

\* int(hz * 100), outside the handler's try: cut towards zero, and raised
\* for an infinity (OverflowError) and a NaN (ValueError).
ToCentihertz(f) ==
  IF f.k = "inf" THEN [err |-> "OverflowError", n |-> 0]
  ELSE IF f.k = "nan" THEN [err |-> "ValueError", n |-> 0]
  ELSE IF f.num < 0 THEN [err |-> "none", n |-> -((-(f.num * 100)) \div f.den)]
  ELSE [err |-> "none", n |-> (f.num * 100) \div f.den]

\* start_lin_sweep (mode 0) and start_log_sweep (mode 1) with the field
\* texts f: what is sent and how the handler ends.
SweepOutcome(mode, f) ==
  LET b == FloatOf(f.begin)
      e == FloatOf(f.end)
      t == IntOf(f.time)
  IN IF ~serOpen THEN [out |-> <<>>, ret |-> "None"]
     ELSE IF b.err # "none" \/ e.err # "none" \/ t.err # "none"
     THEN [out |-> <<>>, ret |-> "None"]
     ELSE IF ToCentihertz(b).err # "none"
     THEN [out |-> <<>>, ret |-> ToCentihertz(b).err]
     ELSE IF ToCentihertz(e).err # "none"
     THEN [out |-> <<>>, ret |-> ToCentihertz(e).err]
     ELSE [out |-> SendCommand(<<"b", "b">> \o ZeroPad(ToCentihertz(b).n, 9))
                     \o SendCommand(<<"b", "e">> \o ZeroPad(ToCentihertz(e).n, 9))
                     \o SendCommand(<<"b", "t">> \o ZeroPad(t.n, 2))
                     \o SendCommand(<<"b", "m">> \o Str(mode))
                     \o SendCommand(<<"b", "r", "1">>),
           ret |-> "None"]

\* A handler of the sweep panel has run.
Pressed(name, f, o) ==
  /\ call' = Op(name, 0, NoArg)
  /\ fields' = f
  /\ out' = o.out
  /\ ret' = o.ret
  /\ UNCHANGED <<serOpen, orphans, uploadVars, data, samplesIn, display,
                 canvasVars>>

StartLinSweep(f) ==
  /\ pc = "idle"
  /\ Pressed("start_lin_sweep", f, SweepOutcome(0, f))

StartLogSweep(f) ==
  /\ pc = "idle"
  /\ Pressed("start_log_sweep", f, SweepOutcome(1, f))

\* Texts of the begin and end fields, and of the time field.
SweepFields ==
  LET HzTexts ==
        {<<"1", "0", "0", ".", "0", "0">>,
         <<"2", ".", "5">>,
         <<"a", "b", "c">>,
         <<"i", "n", "f">>,
         <<"n", "a", "n">>,
         <<"1", "e", "3">>}
      TimeTexts ==
        {<<"2">>,
         <<" ", "1", "0", " ">>,
         <<"2", ".", "5">>,
         <<"-", "1">>}
  IN {[begin |-> b, end |-> e, time |-> t] :
        b \in HzTexts, e \in HzTexts, t \in TimeTexts}

SweepNext ==
  \/ \E ok \in BOOLEAN : ToggleConnection(ok)
  \/ \E f \in SweepFields : StartLinSweep(f)
  \/ \E f \in SweepFields : StartLogSweep(f)

SweepSpec == Init /\ [][SweepNext]_vars

(***************************************************************************)
(* The waveform canvas (ArbWaveCanvas, src/main.py 366-641).  None is      *)
(* <<>>; a dict d is <<d>> with d a function on its keys; an action of the *)
(* stacks is [old, new], two functions on the action's idxs.  An event's   *)
(* position comes as the index and the value that x_to_index and           *)
(* y_to_value make of it.                                                  *)
(***************************************************************************)
\* The fields the drawing helpers work on.
Canvas ==
  [points |-> points, last_draw_idx |-> last_draw_idx,
   current_action |-> current_action, undo_stack |-> undo_stack,
   redo_stack |-> redo_stack]

\* A handler leaves the canvas as c.
Becomes(c) ==
  /\ points' = c.points
  /\ last_draw_idx' = c.last_draw_idx
  /\ current_action' = c.current_action
  /\ undo_stack' = c.undo_stack
  /\ redo_stack' = c.redo_stack
  /\ UNCHANGED <<serOpen, uploadVars, data, facadeVars, samplesIn, display,
                 fields>>

\* _draw_line_segment(i0, v0, i1, v1): every index from i0 to i1 is visited
\* once, its old value noted in the current action if there is one.
DrawLineSegment(c, i0, v0, i1, v1) ==
  LET lo == Min(i0, i1)
      hi == Max(i0, i1)
      a == IF i0 > i1 THEN v1 ELSE v0
      b == IF i0 > i1 THEN v0 ELSE v1
      length == hi - lo
      Val(i) == IF length = 0 THEN Clamp(-Top, Top, v1)
                ELSE Clamp(-Top, Top,
                           (a * (length - (i - lo)) + b * (i - lo)) \div length)
      d == c.current_action[1]
  IN [c EXCEPT
        !.points = [i \in DOMAIN c.points |->
                      IF i \in lo..hi THEN Val(i) ELSE c.points[i]],
        !.current_action =
           IF c.current_action = <<>> THEN <<>>
           ELSE <<[i \in DOMAIN d \cup (lo..hi) |->
                     IF i \in DOMAIN d THEN d[i] ELSE c.points[i]]>>]

\* _apply_draw_at(x, y, interpolate)
ApplyDrawAt(c, idx, val, interpolate) ==
  LET d == c.current_action[1]
      c1 == IF c.current_action = <<>> THEN c
            ELSE [c EXCEPT !.current_action =
                    <<[i \in DOMAIN d \cup {idx} |->
                         IF i \in DOMAIN d THEN d[i] ELSE c.points[i]]>>]
      last == c.last_draw_idx
      drawn == IF interpolate /\ last # <<>> /\ last[1] # idx
               THEN DrawLineSegment(c1, last[1], c1.points[last[1]], idx, val)
               ELSE [c1 EXCEPT !.points[idx] = val]
  IN [drawn EXCEPT !.last_draw_idx = <<idx>>]

\* _finalize_current_action
FinalizeCurrentAction(c) ==
  IF c.current_action = <<>> \/ DOMAIN c.current_action[1] = {}
  THEN [c EXCEPT !.current_action = <<>>]
  ELSE LET d == c.current_action[1]
           action == [old |-> d, new |-> [i \in DOMAIN d |-> c.points[i]]]
           pushed == Append(c.undo_stack, action)
       IN [c EXCEPT
             !.undo_stack = IF Len(pushed) > MaxUndo THEN Tail(pushed) ELSE pushed,
             !.redo_stack = <<>>,
             !.current_action = <<>>]

\* undo() and redo() on the buffer and the stacks
UndoOf(c) ==
  IF c.undo_stack = <<>> THEN c
  ELSE LET action == c.undo_stack[Len(c.undo_stack)]
       IN [c EXCEPT
             !.undo_stack = SubSeq(c.undo_stack, 1, Len(c.undo_stack) - 1),
             !.points = [i \in DOMAIN c.points |->
                           IF i \in DOMAIN action.old THEN action.old[i]
                           ELSE c.points[i]],
             !.redo_stack = Append(c.redo_stack, action)]

RedoOf(c) ==
  IF c.redo_stack = <<>> THEN c
  ELSE LET action == c.redo_stack[Len(c.redo_stack)]
       IN [c EXCEPT
             !.redo_stack = SubSeq(c.redo_stack, 1, Len(c.redo_stack) - 1),
             !.points = [i \in DOMAIN c.points |->
                           IF i \in DOMAIN action.new THEN action.new[i]
                           ELSE c.points[i]],
             !.undo_stack = Append(c.undo_stack, action)]

SetTool(name) ==
  /\ pc = "idle"
  /\ tool' = name
  /\ panning' = IF name # "pan" THEN FALSE ELSE panning
  /\ line_start' = IF name # "line" THEN <<>> ELSE line_start
  /\ Becomes(IF current_action # <<>> /\ DOMAIN current_action[1] # {}
             THEN FinalizeCurrentAction(Canvas) ELSE Canvas)
  /\ UNCHANGED buttons

MousePress(button, idx, val) ==
  /\ pc = "idle"
  /\ button \notin buttons
  /\ buttons' = buttons \cup {button}
  /\ IF button = "left" /\ tool = "pan"
     THEN panning' = TRUE /\ UNCHANGED line_start /\ Becomes(Canvas)
     ELSE IF button = "left" /\ tool = "line"
     THEN line_start' = <<idx, val>> /\ UNCHANGED panning /\ Becomes(Canvas)
     ELSE IF button = "left" /\ tool = "pen"
     THEN /\ Becomes(ApplyDrawAt([Canvas EXCEPT !.current_action = <<<<>>>>],
                                 idx, val, FALSE))
          /\ UNCHANGED <<panning, line_start>>
     ELSE Becomes(Canvas) /\ UNCHANGED <<panning, line_start>>
  /\ UNCHANGED tool

MouseMove(idx, val) ==
  /\ pc = "idle"
  /\ IF tool = "pan" /\ panning THEN Becomes(Canvas)
     ELSE IF "left" \in buttons /\ tool = "pen"
     THEN Becomes(ApplyDrawAt(Canvas, idx, val, TRUE))
     ELSE Becomes(Canvas)
  /\ UNCHANGED <<tool, panning, line_start, buttons>>

MouseRelease(button, idx, val) ==
  /\ pc = "idle"
  /\ button \in buttons
  /\ buttons' = buttons \ {button}
  /\ IF tool = "pan" /\ panning /\ button = "left"
     THEN panning' = FALSE /\ UNCHANGED line_start /\ Becomes(Canvas)
     ELSE IF tool = "line" /\ button = "left" /\ line_start # <<>>
     THEN /\ Becomes(FinalizeCurrentAction(
                       DrawLineSegment([Canvas EXCEPT !.current_action = <<<<>>>>],
                                       line_start[1], line_start[2], idx, val)))
          /\ line_start' = <<>>
          /\ UNCHANGED panning
     ELSE IF tool = "pen" /\ current_action # <<>>
     THEN Becomes(FinalizeCurrentAction(Canvas)) /\ UNCHANGED <<panning, line_start>>
     ELSE Becomes(Canvas) /\ UNCHANGED <<panning, line_start>>
  /\ UNCHANGED tool

Undo ==
  /\ pc = "idle"
  /\ Becomes(UndoOf(Canvas))
  /\ UNCHANGED <<tool, panning, line_start, buttons>>

Redo ==
  /\ pc = "idle"
  /\ Becomes(RedoOf(Canvas))
  /\ UNCHANGED <<tool, panning, line_start, buttons>>

\* Tool changes and mouse events.
DrawNext ==
  \/ \E name \in {"pen", "line", "pan"} : SetTool(name)
  \/ \E button \in {"left", "right"}, idx \in 0..(NumPoints - 1), val \in {-Top, Top} :
       MousePress(button, idx, val)
  \/ \E idx \in 0..(NumPoints - 1), val \in {-Top, Top} : MouseMove(idx, val)
  \/ \E button \in {"left", "right"}, idx \in 0..(NumPoints - 1), val \in {-Top, Top} :
       MouseRelease(button, idx, val)

DrawSpec == Init /\ [][DrawNext]_vars

CanvasNext ==
  \/ DrawNext
  \/ Undo
  \/ Redo

CanvasSpec == Init /\ [][CanvasNext]_vars

Banks == {0, 1, 2, 3, 4, 5}
Observers == {"none", "ui", "lib", "raises"}

\* The (bank, observer) pairs of the calls of the model: every bank without
\* an observer, every observer with a valid and with an invalid bank.  (The
\* bank takes part in the guard and in two control bytes, the observer in
\* the reports: neither reads the other.)
\* The input buffers a call may find and the outcomes of its flush.
PendingInputs == {<<>>, <<ACK_X>>}

\* <<bank, progress_cb, bytes pending at the call, the flush succeeds>>
UploadInputs ==
  {<<b, "none", <<>>, TRUE>> : b \in Banks}
    \cup {<<b, o, <<>>, TRUE>> : b \in {0, 1}, o \in Observers}
    \cup {<<1, "none", p, f>> : p \in PendingInputs, f \in BOOLEAN}

\* connect.  ok: serial.Serial() opens the port.  The transport held
\* before is not closed by connect: self.ser is rebound, and the transport
\* is closed only when the interpreter finalises the object (collected).
Connect(ok, collected) ==
  /\ pc = "idle"
  /\ call' = Op("connect", 0, NoArg)
  /\ out' = <<>>
  /\ IF ok
     THEN /\ serOpen' = TRUE
          /\ IF serOpen /\ ~collected
             THEN orphans < MaxOrphans /\ orphans' = orphans + 1
             ELSE UNCHANGED orphans
          /\ ret' = "True"
     ELSE /\ ret' = "False"
          /\ UNCHANGED <<serOpen, orphans>>
  /\ UNCHANGED <<uploadVars, data, samplesIn, display,
                 fields, canvasVars>>

Disconnect_LeavesOpen ==
  /\ pc = "idle"
  /\ call' = Op("disconnect", 0, NoArg)
  /\ out' = <<>>
  /\ ret' = "None"
  /\ UNCHANGED <<serOpen, orphans, uploadVars, data, samplesIn, display,
                 fields, canvasVars>>

\* disconnect: closes the transport the facade holds, if it is open.
Disconnect ==
  /\ pc = "idle"
  /\ call' = Op("disconnect", 0, NoArg)
  /\ out' = <<>>
  /\ ret' = "None"
  /\ serOpen' = FALSE
  /\ UNCHANGED <<orphans, uploadVars, data, samplesIn, display,
                 fields, canvasVars>>

GetModel ==
  /\ pc = "idle"
  /\ Does(Op("get_model", 0, NoArg), SendCommand(<<"a">>) \o ReadResponse,
          Response)

SetWaveform(channel, v) ==
  /\ pc = "idle"
  /\ Sends(Op("set_waveform", channel, v), Prefix(channel) \o <<"w">>,
           FormatPlain(v))

SetFrequency(channel, v) ==
  /\ pc = "idle"
  /\ Sends(Op("set_frequency", channel, v), Prefix(channel) \o <<"f">>,
           FormatPlain(v))

SetAmplitude(channel, v) ==
  /\ pc = "idle"
  /\ Sends(Op("set_amplitude", channel, v), Prefix(channel) \o <<"a">>,
           FormatF(v))

SetOffset(channel, v) ==
  /\ pc = "idle"
  /\ Sends(Op("set_offset", channel, v), Prefix(channel) \o <<"o">>,
           FormatF(v))

SetDutyCycle(channel, v) ==
  /\ pc = "idle"
  /\ Sends(Op("set_duty_cycle", channel, v), Prefix(channel) \o <<"d">>,
           FormatD(v, 3))

SetPhase(v) ==
  /\ pc = "idle"
  /\ Sends(Op("set_phase", 0, v), <<"d", "p">>, FormatD(v, 3))

SetTriggerSource(v) ==
  /\ pc = "idle"
  /\ IF InTuple(v, 2)
     THEN Sends(Op("set_trigger_source", 0, v), <<"t", "t">>, FormatPlain(v))
     ELSE Does(Op("set_trigger_source", 0, v), <<>>, "None")

\* A setter that takes int(v) and sends it w digits wide; returns at once
\* when int() raises TypeError or ValueError.
SendsInt(c, head, v, w) ==
  IF ToInt(v).err # "none" THEN Does(c, <<>>, "None")
  ELSE Sends(c, head, Text(ZeroPad(ToInt(v).n, w)))

SetTriggerCycles(v) ==
  /\ pc = "idle"
  /\ SendsInt(Op("set_trigger_cycles", 0, v), <<"t", "n">>, v, 7)

SetSweepMode(v) ==
  /\ pc = "idle"
  /\ IF InTuple(v, 1)
     THEN Sends(Op("set_sweep_mode", 0, v), <<"b", "m">>, FormatPlain(v))
     ELSE Does(Op("set_sweep_mode", 0, v), <<>>, "None")

SetSweepTime(v) ==
  /\ pc = "idle"
  /\ SendsInt(Op("set_sweep_time", 0, v), <<"b", "t">>, v, 2)

StartSweep ==
  /\ pc = "idle"
  /\ Does(Op("start_sweep", 0, NoArg), SendCommand(<<"b", "r", "1">>), "None")

StopSweep ==
  /\ pc = "idle"
  /\ Does(Op("stop_sweep", 0, NoArg), SendCommand(<<"b", "r", "0">>), "None")

\* n < 0 or n > 99
RegisterOutOfRange_Above150(n) == n < 0 \/ n > 150
RegisterOutOfRange(n) == n < 0 \/ n > 99

SaveRegister(v) ==
  /\ pc = "idle"
  /\ IF ToInt(v).err # "none" \/ RegisterOutOfRange(ToInt(v).n)
     THEN Does(Op("save_register", 0, v), <<>>, "None")
     ELSE Sends(Op("save_register", 0, v), <<"b", "s">>,
                Text(Str(ToInt(v).n)))

SetSweepBegin(v) ==
  /\ pc = "idle"
  /\ SendsInt(Op("set_sweep_begin", 0, v), <<"b", "b">>, v, 9)

SetSweepEnd(v) ==
  /\ pc = "idle"
  /\ SendsInt(Op("set_sweep_end", 0, v), <<"b", "e">>, v, 9)

\* upload_arbitrary on a facade with no open transport (the upload on an
\* open one is the subject of Spec).
UploadNotConnected(b) ==
  /\ pc = "idle"
  /\ ~serOpen
  /\ Does(Op("upload_arbitrary", b, NoArg), <<>>, "False")

\* measure_frequency, measure_count: the test of the transport, then the
\* command and one response line.
Measure(name, cmd) ==
  IF ~serOpen THEN Does(Op(name, 0, NoArg), <<>>, "None")
  ELSE Does(Op(name, 0, NoArg), SendCommand(cmd) \o ReadResponse, Response)

MeasureFrequency ==
  /\ pc = "idle"
  /\ Measure("measure_frequency", <<"c", "e">>)

MeasureCount ==
  /\ pc = "idle"
  /\ Measure("measure_count", <<"c", "c">>)

ClearCount ==
  /\ pc = "idle"
  /\ IF ~serOpen THEN Does(Op("clear_count", 0, NoArg), <<>>, "None")
     ELSE Does(Op("clear_count", 0, NoArg), SendCommand(<<"b", "c">>), "None")

Channels == {1, 2}

\* Arguments of the setters: ints around every bound of the command table,
\* floats, a str that is a number, a str that is none, and None.
Ints ==
  {-5, -1, 0, 1, 2, 3, 5, 42, 99, 100, 150, 999, 1000, 1000000, 9999999,
   10000000, 999999999, 1000000000}

\* Values that are no int.
Others ==
       {FloatArg(11, 2, <<"5", ".", "5">>), FloatArg(1, 8, <<"0", ".", "1", "2", "5">>),
          FloatArg(31, 10, <<"3", ".", "1">>), FloatArg(-1, 4, <<"-", "0", ".", "2", "5">>),
          FloatArg(1, 1, <<"1", ".", "0">>),
          NumStrArg(42), StrArg(<<"a", "b", "c">>), NoneArg}

Args == {IntArg(n) : n \in Ints} \cup Others

\* Arguments of the setters of a voltage.
Volts == {IntArg(n) : n \in {-5, 0, 1, 5, 42}} \cup Others

FacadeNext ==
  \/ \E ok \in BOOLEAN, collected \in BOOLEAN : Connect(ok, collected)
  \/ Disconnect
  \/ GetModel
  \/ \E c \in Channels, v \in Args : SetWaveform(c, v)
  \/ \E c \in Channels, v \in Args : SetFrequency(c, v)
  \/ \E c \in Channels, v \in Volts : SetAmplitude(c, v)
  \/ \E c \in Channels, v \in Volts : SetOffset(c, v)
  \/ \E c \in Channels, v \in Args : SetDutyCycle(c, v)
  \/ \E v \in Args : SetPhase(v)
  \/ \E v \in Args : SetTriggerSource(v)
  \/ \E v \in Args : SetTriggerCycles(v)
  \/ \E v \in Args : SetSweepMode(v)
  \/ \E v \in Args : SetSweepTime(v)
  \/ StartSweep
  \/ StopSweep
  \/ \E v \in Args : SaveRegister(v)
  \/ \E v \in Args : SetSweepBegin(v)
  \/ \E v \in Args : SetSweepEnd(v)
  \/ \E b \in Banks : UploadNotConnected(b)
  \/ MeasureFrequency
  \/ MeasureCount
  \/ ClearCount

FacadeSpec == Init /\ [][FacadeNext]_vars

Next ==
  \/ \E c \in UploadInputs, s \in SampleInputs : UploadCall(c[1], s, c[2], c[3], c[4])
  \/ \E r \in AllCtlReads : HandshakeAck(r)
  \/ \E r \in AllCtlReads : EraseAck(r)
  \/ \E r \in AllCtlReads : BeginAck(r)
  \/ \E r \in AllAckReads : ChunkAck(r)
  \/ ReportReturn
  \/ CallbackDisconnect
  \/ UploadReturn
  \/ \E ok \in BOOLEAN : ToggleConnection(ok)
  \/ ToggleMeasureFrequency
  \/ ToggleMeasureCount
  \/ PollMeasureFrequency
  \/ PollMeasureCount

Spec == Init /\ [][Next]_vars

(***************************************************************************)
(* Upload calls of a program that uses the facade, on a transport whose    *)
(* every read returns within its timeout and that may deliver bytes other  *)
(* than 'X' without end.  The call is sequential code: whenever it is at a *)
(* read, the read returns and the code after it runs.  What a read returns *)
(* is up to the transport.                                                 *)
(***************************************************************************)
LiveNext ==
  \/ \E ok \in BOOLEAN : ToggleConnection(ok)
  \/ \E b \in {0, 1}, s \in SampleInputs, p \in PendingInputs, f \in BOOLEAN :
       UploadCall(b, s, "none", p, f)
  \/ \E r \in AllCtlReads : HandshakeAck(r)
  \/ \E r \in AllCtlReads : EraseAck(r)
  \/ \E r \in AllCtlReads : BeginAck(r)
  \/ \E r \in AllAckReads : NoisyChunkAck(r)
  \/ ReportReturn
  \/ UploadReturn

LiveFairness ==
  /\ WF_vars(\E r \in AllCtlReads : HandshakeAck(r))
  /\ WF_vars(\E r \in AllCtlReads : EraseAck(r))
  /\ WF_vars(\E r \in AllCtlReads : BeginAck(r))
  /\ WF_vars(\E r \in AllAckReads : NoisyChunkAck(r))
  /\ WF_vars(ReportReturn)

LiveSpec == Init /\ [][LiveNext]_vars /\ LiveFairness

TypeOK ==
  /\ serOpen \in BOOLEAN
  /\ pc \in {"idle", "hs", "erase", "begin", "ack", "report", "returned"}
  /\ result \in {"none", "True", "False", "RuntimeError"}
  /\ sent \in 0..(2 * NumSamples)
  /\ acked \in 0..chunk_size

(***************************************************************************)
(* Reading the history of a call.                                          *)
(***************************************************************************)
IsUploadWrite(e) == e.by = "upload" /\ e.op = "write"
IsFrameWrite(e) ==
  IsUploadWrite(e) /\ Len(e.bytes) = 9 /\ SubSeq(e.bytes, 1, 8) = MAGIC
IsChunkWrite(e) == IsUploadWrite(e) /\ ~IsFrameWrite(e)

\* The chunks of sample data written so far, in order.
ChunkWrites == SelectSeq(wire, IsChunkWrite)

RECURSIVE Flatten(_)
Flatten(ws) ==
  IF ws = <<>> THEN <<>> ELSE Head(ws).bytes \o Flatten(Tail(ws))

\* The sample data written so far.
PayloadWritten == Flatten(ChunkWrites)

\* The seven transport operations that precede the transfer to bank b when
\* every control phase is acknowledged.
ControlPrefix(b) ==
  << [by |-> "upload", op |-> "flush", bytes |-> <<>>],
     [by |-> "upload", op |-> "write",
      bytes |-> <<68, 68, 83, 95, 87, 65, 86, 69, 165>>],
     [by |-> "upload", op |-> "read", bytes |-> <<88>>],
     [by |-> "upload", op |-> "write",
      bytes |-> <<68, 68, 83, 95, 87, 65, 86, 69, 240 + b>>],
     [by |-> "upload", op |-> "read", bytes |-> <<83, 69>>],
     [by |-> "upload", op |-> "write",
      bytes |-> <<68, 68, 83, 95, 87, 65, 86, 69, b>>],
     [by |-> "upload", op |-> "read", bytes |-> <<87>> ] >>

\* Length of the k-th chunk of a payload of n bytes.
ChunkLen(k, n) == Min(chunk_size, n - chunk_size * (k - 1))

\* Number of chunks of a payload of n bytes.
ChunkCount(n) == (n + chunk_size - 1) \div chunk_size

\* 'A', seven 'X', 'A'
AX7A == <<65, 88, 88, 88, 88, 88, 88, 88, 65>>
\* 'A', eight 'X'
AX8 == <<65, 88, 88, 88, 88, 88, 88, 88, 88>>

(***************************************************************************)
(* C1.  No byte of the sample payload is written unless, earlier in the    *)
(* same call and in this order, the read after the 0xA5 frame returned     *)
(* exactly 'X', the read after the 0xF0+bank frame exactly 'S','E' and the *)
(* read after the begin frame exactly 'W'.                                 *)
(***************************************************************************)
C1_PayloadOnlyAfterThreeAcks ==
  \A i \in DOMAIN wire :
    IsChunkWrite(wire[i]) =>
      /\ i > 7
      /\ SubSeq(wire, 1, 7) = ControlPrefix(bank)

C1_Witness ==
  /\ pc = "ack"
  /\ Len(ChunkWrites) = 2

(***************************************************************************)
(* C2.  From the first handshake write until upload_arbitrary returns, no  *)
(* other operation writes to or reads from the transport: every transport  *)
(* operation of the call's duration is issued by the upload itself.        *)
(***************************************************************************)
C2_NoInterleavedTransportUse ==
  \A i \in DOMAIN wire : wire[i].by = "upload"

(***************************************************************************)
(* C3.  As claimed: a chunk of 8 bytes answered with the byte stream       *)
(* A X X X X X X X A and nothing more does not make the upload fail.       *)
(***************************************************************************)
C3_AsClaimed ==
  ~(stream = AX7A /\ failPhase = "transfer")

(***************************************************************************)
(* C3, amended.  A chunk counts as acknowledged exactly when as many 0x58  *)
(* bytes as it has bytes have been read for it, other bytes being skipped: *)
(* after A X X X X X X X A only seven are counted and the engine still     *)
(* waits (and fails if nothing more arrives); while a chunk waits fewer    *)
(* 'X' than its length have been read, and when the engine moves on        *)
(* exactly that many have.                                                 *)
(***************************************************************************)
C3_CountsEightX ==
  /\ stream = AX7A =>
       /\ acked = 7
       /\ pc = "ack" \/ (pc = "returned" /\ failPhase = "transfer")
  /\ pc = "ack" => CountX(stream) < Len(Chunk(sent))
  /\ pc = "report" =>
       CountX(stream) = Len(ChunkWrites[Len(ChunkWrites)].bytes)

C3_Witness ==
  /\ pc = "report"
  /\ stream = AX8

(***************************************************************************)
(* C4.  During the transfer a byte other than 'X' is never an error: a     *)
(* step that reads bytes for a waiting chunk never fails the upload; it    *)
(* completes the chunk exactly when the 'X' bytes read for the chunk reach *)
(* the chunk's length, and otherwise the wait goes on.                     *)
(***************************************************************************)
C4_StrayBytesIgnored ==
  [][(pc = "ack" /\ stream' # stream) =>
       /\ pc' # "returned"
       /\ result' = "none"
       /\ IF CountX(stream') = Len(Chunk(sent))
          THEN pc' = "report" /\ sent' = sent + Len(Chunk(sent))
          ELSE pc' = "ack" /\ sent' = sent /\ wire' = wire]_vars

C4_Witness ==
  /\ pc = "report"
  /\ sent = 2 * chunk_size
  /\ NoiseCount(stream) = 2
  /\ CountX(stream) = chunk_size

C6_BeginFailureWritesNoPayload ==
  (Len(wire) >= 7 /\ wire[7].bytes # <<87>>) =>
     /\ SubSeq(wire, 1, 6) = SubSeq(ControlPrefix(bank), 1, 6)
     /\ wire[7].op = "read"
     /\ pc = "returned"
     /\ result = "False"
     /\ Len(wire) = 7
     /\ ChunkWrites = <<>>

C6_Witness ==
  /\ Len(wire) = 7
  /\ wire[7].bytes = <<88>>
  /\ result = "False"

(***************************************************************************)
(* C7.  A handshake acknowledgment other than exactly 'X' ends the call    *)
(* with failure before the erase frame is written; an erase acknowledgment *)
(* other than exactly 'S','E' (mismatch, short read, timeout) ends it with *)
(* failure before the begin frame is written; nothing more is written.     *)
(***************************************************************************)
C7_ControlFailureStopsTheCall ==
  /\ (Len(wire) >= 3 /\ wire[3].bytes # <<88>>) =>
       /\ wire[3].op = "read"
       /\ Len(wire) = 3
       /\ pc = "returned"
       /\ result = "False"
  /\ (Len(wire) >= 5 /\ wire[5].bytes # <<83, 69>>) =>
       /\ wire[5].op = "read"
       /\ Len(wire) = 5
       /\ pc = "returned"
       /\ result = "False"

C7_Witness ==
  /\ Len(wire) = 5
  /\ wire[5].bytes = <<83>>
  /\ result = "False"

C9_ProgressReports ==
  /\ obs = "none" => reports = <<>>
  /\ obs # "none" =>
       /\ Len(reports) = Len(chunkAcks)
       /\ \A k \in DOMAIN reports :
            reports[k] = <<Min(chunk_size * k, 2 * NumSamples), 2 * NumSamples>>
       /\ \A j, k \in DOMAIN reports : j < k => reports[j][1] < reports[k][1]
       /\ sent = IF reports = <<>> THEN 0 ELSE reports[Len(reports)][1]
       /\ result = "True" =>
            /\ reports # <<>>
            /\ reports[Len(reports)] = <<Len(data), Len(data)>>

C9_Witness ==
  /\ obs = "ui"
  /\ result = "True"
  /\ Len(reports) >= 2

(***************************************************************************)
(* C10.  A failed call returns False, and by then the observer has had     *)
(* exactly one report per chunk acknowledged before the failure: none when *)
(* the handshake, erase or begin phase failed, and after a timeout on      *)
(* chunk k+1 the k reports of the chunks before it, the last one 8k.       *)
(***************************************************************************)
C10_FailureAfterPartialProgress ==
  /\ result = "False" <=> failPhase # "none"
  /\ result # "none" <=> pc = "returned"
  /\ failPhase \in {"closed", "bank", "hs", "erase", "begin"} =>
       /\ reports = <<>>
       /\ ChunkWrites = <<>>
  /\ failPhase = "transfer" =>
       LET k == Len(chunkAcks) IN
       /\ Len(ChunkWrites) = k + 1
       /\ sent = chunk_size * k
       /\ obs # "none" =>
            /\ Len(reports) = k
            /\ k > 0 => reports[k][1] = chunk_size * k

C10_Witness ==
  /\ failPhase = "transfer"
  /\ obs = "ui"
  /\ Len(reports) = 1
  /\ Len(ChunkWrites) = 2

\* The control frames written so far, in order.
FrameWrites == SelectSeq(wire, IsFrameWrite)

\* How often the frame with control byte c was written in this call.
TimesWritten(c) ==
  Cardinality({i \in DOMAIN wire : wire[i] = Write("upload", Frame(c))})

(***************************************************************************)
(* C11.  No retry, no resumption.  Within a call each control frame is     *)
(* written at most once and the k-th chunk written is the k-th slice of    *)
(* the payload, so no chunk is written twice.  A call that follows another *)
(* call, however that one ended, begins with the input flush and the 0xA5  *)
(* frame, with nothing sent, and its first chunk is the payload's first.   *)
(***************************************************************************)
C11_NoRetryNoResumption ==
  /\ \A c \in {INIT_CTL, ERASE_BASE + bank, BEGIN_BASE + bank} :
       TimesWritten(c) <= 1
  /\ Len(FrameWrites) <= 3
  /\ \A k \in DOMAIN ChunkWrites :
       ChunkWrites[k].bytes =
         SubSeq(data, chunk_size * (k - 1) + 1, Min(chunk_size * k, Len(data)))
  /\ pc = "hs" =>
       /\ lastOutcome \in {"none", "ok", "raised", "closed", "bank", "hs",
                           "erase", "begin", "transfer"}
       /\ wire = << [by |-> "upload", op |-> "flush", bytes |-> <<>>],
                    [by |-> "upload", op |-> "write",
                     bytes |-> <<68, 68, 83, 95, 87, 65, 86, 69, 165>>] >>
       /\ sent = 0
       /\ Len(data) = 2 * NumSamples
  /\ wire # <<>> => wire[1].op = "flush" /\ wire[2].bytes[9] = 165

C11_Witness ==
  /\ pc = "hs"
  /\ lastOutcome = "transfer"

(***************************************************************************)
(* C12.  For every bank 1..4 an upload that reaches the transfer has       *)
(* written exactly three control frames, in the order magic+0xA5,          *)
(* magic+(0xF0+bank), magic+bank; each is the 8 bytes DDS_WAVE and one     *)
(* control byte, and each frame after the first is written right after the *)
(* read that acknowledged the frame before it ('X', then 'S','E').         *)
(***************************************************************************)
C12_ControlFramesInOrder ==
  /\ \A i \in DOMAIN wire :
       (wire[i].by = "upload" /\ wire[i].op = "write" /\ ChunkWrites = <<>>) =>
         /\ Len(wire[i].bytes) = 9
         /\ SubSeq(wire[i].bytes, 1, 8) = <<68, 68, 83, 95, 87, 65, 86, 69>>
  /\ ChunkWrites # <<>> =>
       /\ bank \in 1..4
       /\ [k \in 1..Len(FrameWrites) |-> FrameWrites[k].bytes[9]] =
            <<165, 240 + bank, bank>>
       /\ \A k \in DOMAIN FrameWrites :
            /\ Len(FrameWrites[k].bytes) = 9
            /\ SubSeq(FrameWrites[k].bytes, 1, 8) =
                 <<68, 68, 83, 95, 87, 65, 86, 69>>
  /\ \A i \in DOMAIN wire :
       IsFrameWrite(wire[i]) =>
         CASE wire[i].bytes[9] = 165 -> i = 2 /\ wire[1].op = "flush"
           [] wire[i].bytes[9] \in 241..244 ->
                /\ i = 4
                /\ wire[3] = [by |-> "upload", op |-> "read", bytes |-> <<88>>]
                /\ wire[2].bytes[9] = 165
           [] wire[i].bytes[9] \in 1..4 ->
                /\ i = 6
                /\ wire[5] = [by |-> "upload", op |-> "read",
                              bytes |-> <<83, 69>>]
                /\ wire[4].bytes[9] = 240 + wire[i].bytes[9]
           [] OTHER -> FALSE

C12_Witness ==
  /\ pc = "ack"
  /\ bank = 3
  /\ Len(FrameWrites) = 3
  /\ FrameWrites[2].bytes[9] = 243

(***************************************************************************)
(* C16.  When the transport is closed while an upload is in progress, the  *)
(* upload's next transport operation fails: the call ends there with the   *)
(* error, not with success, and from the close to the end of the call      *)
(* nothing is written.  (When the close comes after the last chunk was     *)
(* acknowledged there is no next operation and the call returns True.)     *)
(***************************************************************************)
C16_CloseFailsTheUpload ==
  [][(~serOpen /\ pc \in {"report", "returned"}) =>
       /\ wire' = wire \/ pc' = "idle"
       /\ (pc = "report" /\ pc' # "report") =>
            /\ pc' = "returned"
            /\ result' = IF sent < Len(data) THEN "RuntimeError" ELSE "True"]_vars

C16_Witness ==
  /\ pc = "returned"
  /\ result = "RuntimeError"
  /\ ~serOpen
  /\ Len(ChunkWrites) = 1

(***************************************************************************)
(* Reading the registers of the facade.                                    *)
(***************************************************************************)
\* Transports opened by the facade that are open.
OpenTransports == (IF serOpen THEN 1 ELSE 0) + orphans

\* The operation recorded in call was given arguments of the types its
\* signature declares (int; int or float for a voltage).
DeclaredTypes ==
  \/ call.arg.k \in {"absent", "int"}
  \/ call.arg.k = "float" /\ call.op \in {"set_amplitude", "set_offset"}

\* The operations that are no connect or disconnect: the transport is as
\* open after them as it was when they ran.
IsOperation(c) == c.op \notin {"none", "connect", "disconnect"}

\* The setters that take a number.
NumericSetters ==
  {"set_frequency", "set_amplitude", "set_offset", "set_duty_cycle",
   "set_phase", "set_trigger_cycles", "set_sweep_time", "set_sweep_begin",
   "set_sweep_end", "save_register"}

\* The number of digits the command table fixes for a setter's payload.
FixedWidth(op) ==
  CASE op \in {"set_duty_cycle", "set_phase"} -> 3
    [] op = "set_sweep_time" -> 2
    [] op = "set_trigger_cycles" -> 7
    [] op \in {"set_sweep_begin", "set_sweep_end"} -> 9
    [] OTHER -> 0

AllDigits(t) ==
  \A i \in DOMAIN t : t[i] \in {"0", "1", "2", "3", "4", "5", "6", "7", "8", "9"}

\* The trace of one command sent: the text with its newline, then the
\* settle delay.
OneCommand(t) ==
  << [op |-> "write", text |-> t \o <<"\n">>],
     [op |-> "sleep", text |-> <<>>] >>

(***************************************************************************)
(* C13.  As claimed: whatever connect and disconnect calls were made on a  *)
(* facade, at most one transport opened by it is open.                     *)
(***************************************************************************)
C13_AtMostOneOpen == OpenTransports <= 1

(***************************************************************************)
(* C14.  Every facade operation invoked with arguments of the declared     *)
(* types while no transport is open writes nothing, reads nothing, does    *)
(* not wait, raises nothing and leaves the facade as it was; it returns    *)
(* None, and upload_arbitrary returns False.                               *)
(***************************************************************************)
C14_ClosedOperationsAreNoOps ==
  [][(~serOpen /\ IsOperation(call') /\ DeclaredTypes') =>
       /\ out' = <<>>
       /\ ret' = IF call'.op = "upload_arbitrary" THEN "False" ELSE "None"
       /\ serOpen' = serOpen
       /\ orphans' = orphans]_vars

C14_Witness ==
  /\ ~serOpen
  /\ call.op = "get_model"
  /\ out = <<>>
  /\ ret = "None"

(***************************************************************************)
(* C15.  As claimed: a setter of a number given a value that is no number  *)
(* (a str that does not parse, None) sends nothing and raises nothing.     *)
(***************************************************************************)
C15_AsClaimed ==
  (call.op \in NumericSetters /\ call.arg.k \in {"str", "none"}) =>
     /\ out = <<>>
     /\ ret = "None"

C18_RangeValidatedSetters ==
  LET n == call.arg.num IN
  (call.arg.k = "int" /\ serOpen) =>
    /\ call.op = "set_trigger_source" =>
         out = IF n \in {0, 1, 2} THEN OneCommand(<<"t", "t", Digit(n)>>)
               ELSE <<>>
    /\ call.op = "set_sweep_mode" =>
         out = IF n \in {0, 1} THEN OneCommand(<<"b", "m", Digit(n)>>)
               ELSE <<>>
    /\ call.op = "save_register" =>
         out = IF 0 <= n /\ n <= 99
               THEN OneCommand(IF n < 10 THEN <<"b", "s", Digit(n)>>
                               ELSE <<"b", "s", Digit(n \div 10), Digit(n % 10)>>)
               ELSE <<>>
    /\ call.op \in {"set_trigger_source", "set_sweep_mode", "save_register"} =>
         ret = "None"

C18_Witness ==
  /\ serOpen
  /\ call.op = "save_register"
  /\ call.arg.k = "int"
  /\ call.arg.num = 150
  /\ out = <<>>

(***************************************************************************)
(* Reading a payload.                                                      *)
(***************************************************************************)
\* The k-th code of the payload, read little-endian.
Code(k) == data[2 * k - 1] + 256 * data[2 * k]

\* The samples of the input that are consumed.
Consumed == 1..Min(Len(samplesIn), NumSamples)

\* The values of two float samples compare as a <= b.
ValueLeq(a, b) == a.num * b.den <= b.num * a.den

(***************************************************************************)
(* C19.  For an input of any length n, none and more than the device takes *)
(* included, the payload is two bytes for each of the NumSamples codes     *)
(* (2048 in the program, 4096 bytes): the codes of the first               *)
(* min(n, NumSamples) samples in input order, then the mid-scale code 2048 *)
(* for the rest; samples beyond that never affect the payload.             *)
(***************************************************************************)
C19_PayloadLengthAndPadding ==
  data # <<>> =>
    /\ Len(data) = 2 * NumSamples
    /\ \A k \in 1..NumSamples :
         Code(k) = IF k <= Len(samplesIn) THEN Quantize(samplesIn[k]) ELSE 2048
    /\ data = Encode(SubSeq(samplesIn, 1, Min(Len(samplesIn), NumSamples)))

C19_Witness ==
  /\ data # <<>>
  /\ Len(samplesIn) > NumSamples
  /\ samplesIn[1].k = "int"

(***************************************************************************)
(* C20.  Quantisation of a float sample: 1.0 and every value above it      *)
(* gives 4095, -1.0 and every value below it gives 0, 0.0 gives 2048; the  *)
(* code is in 0..4095 and does not decrease when the sample grows (equal   *)
(* samples give equal codes).                                              *)
(***************************************************************************)
C20_QuantizationEndPoints ==
  data # <<>> =>
    \A i \in Consumed :
      samplesIn[i].k = "float" =>
        /\ Code(i) \in 0..4095
        /\ samplesIn[i].num >= samplesIn[i].den => Code(i) = 4095
        /\ samplesIn[i].num <= -samplesIn[i].den => Code(i) = 0
        /\ samplesIn[i].num = 0 => Code(i) = 2048
        /\ \A j \in Consumed :
             (samplesIn[j].k = "float" /\ ValueLeq(samplesIn[i], samplesIn[j]))
               => Code(i) <= Code(j)

C20_Witness ==
  /\ data # <<>>
  /\ Len(samplesIn) >= 3
  /\ samplesIn[1] = [k |-> "float", num |-> 0, den |-> 1]
  /\ samplesIn[2] = [k |-> "float", num |-> 1, den |-> 1]
  /\ samplesIn[3] = [k |-> "float", num |-> -1, den |-> 1]
  /\ <<Code(1), Code(2), Code(3)>> = <<2048, 4095, 0>>

(***************************************************************************)
(* C21.  Every code of the payload is in 0..4095, an int sample being used *)
(* as it is after clamping to that range; a code c is the two bytes        *)
(* c mod 256 then c div 256, so every second byte is at most 0x0F and      *)
(* reading the payload little-endian gives the codes back.                 *)
(***************************************************************************)
C21_CodesAndByteOrder ==
  data # <<>> =>
    \A k \in 1..NumSamples :
      LET c == Vals(samplesIn)[k] IN
      /\ c \in 0..4095
      /\ (k <= Len(samplesIn) /\ samplesIn[k].k = "int") =>
           c = IF samplesIn[k].num < 0 THEN 0
               ELSE IF samplesIn[k].num > 4095 THEN 4095
               ELSE samplesIn[k].num
      /\ data[2 * k - 1] = c % 256
      /\ data[2 * k] = c \div 256
      /\ data[2 * k] <= 15
      /\ data[2 * k - 1] \in 0..255
      /\ Code(k) = c

C21_Witness ==
  /\ data # <<>>
  /\ Len(samplesIn) >= 7
  /\ samplesIn[3] = [k |-> "int", num |-> 1024, den |-> 1]
  /\ samplesIn[7] = [k |-> "int", num |-> 5120, den |-> 1]
  /\ <<data[5], data[6]>> = <<0, 4>>
  /\ <<data[13], data[14]>> = <<255, 15>>

\* In the trace t every write is of a text that ends with its only newline
\* and the entry after it is the settle delay.
SettledWrites(t) ==
  \A i \in DOMAIN t :
    t[i].op = "write" =>
      /\ Len(t[i].text) >= 2
      /\ t[i].text[Len(t[i].text)] = "\n"
      /\ \A j \in 1..(Len(t[i].text) - 1) : t[i].text[j] # "\n"
      /\ i < Len(t)
      /\ t[i + 1].op = "sleep"

(***************************************************************************)
(* C22.  Every command sent on an open transport is written as its text    *)
(* and one newline, and the settle delay follows before send_command       *)
(* returns: in the trace of an operation followed by the trace of the next *)
(* operation every write is directly followed by a delay, so two command   *)
(* writes are never adjacent.  send_command does not read: a trace holds a *)
(* read only for get_model and the two measurements, after the delay.      *)
(***************************************************************************)
C22_WriteThenSettle ==
  [][/\ SettledWrites(out \o out')
     /\ \A i \in DOMAIN out' :
          out'[i].op = "readline" =>
            /\ call'.op \in {"get_model", "measure_frequency", "measure_count"}
            /\ i = 3
            /\ out'[2].op = "sleep"
     /\ (serOpen /\ call'.op \in {"start_sweep", "stop_sweep", "clear_count"})
          => Len(out') = 2 /\ out'[1].op = "write"]_vars

C22_Witness ==
  /\ serOpen
  /\ call.op = "get_model"
  /\ out = << [op |-> "write", text |-> <<"a", "\n">>],
              [op |-> "sleep", text |-> <<>>],
              [op |-> "readline", text |-> <<>>] >>

(***************************************************************************)
(* The displays the poll handlers are to show, response by response.       *)
(***************************************************************************)
FrequencyShown(r) ==
  CASE r = <<"1", "2", "3", "4", "5", " ", "H", "z">> -> <<"1", "2", "3", ".", "4", "5">>
    [] r = <<"c", "o", "u", "n", "t", "=", "7", "7">> -> <<"0", ".", "7", "7">>
    [] r = <<"E", "R", "R">> -> <<"E", "R", "R">>
    [] r = <<>> -> <<>>
    [] r = <<"-", "5", "0">> -> <<"-", "0", ".", "5", "0">>
    [] r = <<"+", "-", "5">> -> <<"-", "0", ".", "0", "5">>
    [] r = <<"1", ".", "5", "e", "3">> -> <<"1", "5", ".", "0", "0">>
    [] r = <<"7", ".">> -> <<"0", ".", "0", "7">>
    [] r = <<"x", ".", "2", "5">> -> <<"0", ".", "0", "0">>
    [] r = <<"1", "2", ".", "5">> -> <<"0", ".", "1", "2">>
    [] r = <<"2", "e">> -> <<"0", ".", "0", "2">>
    [] r = <<"1", "e", "-", "2">> -> <<"0", ".", "0", "0">>
    [] r = <<"0", "0", "7">> -> <<"0", ".", "0", "7">>
    [] r = <<"5", "e", "+", "2">> -> <<"5", ".", "0", "0">>
    [] r = <<"a", "-", "b">> -> <<"a", "-", "b">>

CountShown(r) ==
  CASE r = <<"1", "2", "3", "4", "5", " ", "H", "z">> -> <<"1", "2", "3", "4", "5">>
    [] r = <<"c", "o", "u", "n", "t", "=", "7", "7">> -> <<"7", "7">>
    [] r = <<"E", "R", "R">> -> <<"E", "R", "R">>
    [] r = <<>> -> <<>>
    [] r = <<"-", "5", "0">> -> <<"-", "5", "0">>
    [] r = <<"+", "-", "5">> -> <<"-", "5">>
    [] r = <<"1", ".", "5", "e", "3">> -> <<"1">>
    [] r = <<"7", ".">> -> <<"7">>
    [] r = <<"x", ".", "2", "5">> -> <<"2", "5">>
    [] r = <<"1", "2", ".", "5">> -> <<"1", "2">>
    [] r = <<"2", "e">> -> <<"2">>
    [] r = <<"1", "e", "-", "2">> -> <<"1">>
    [] r = <<"0", "0", "7">> -> <<"7">>
    [] r = <<"5", "e", "+", "2">> -> <<"5">>
    [] r = <<"a", "-", "b">> -> <<"a", "-", "b">>

(***************************************************************************)
(* C23.  The frequency poll shows the first number of the response, taken  *)
(* as centihertz, in hertz with two decimals ("12345 Hz" shows "123.45");  *)
(* the count poll shows the first signed integer as it is ("count=77"      *)
(* shows 77); a response with no number ("ERR") is shown as it is; when    *)
(* there is no response (None: no transport) the display is left alone.    *)
(* A poll changes no display but its own.                                  *)
(***************************************************************************)
C23_ResponsesDisplayed ==
  [][polled' # polled =>
       /\ polled'.resp = <<"N", "o", "n", "e">> =>
            freqText' = freqText /\ countText' = countText
       /\ (polled'.by = "frequency" /\ polled'.resp \in Responses) =>
            freqText' = FrequencyShown(polled'.resp) /\ countText' = countText
       /\ (polled'.by = "count" /\ polled'.resp \in Responses) =>
            countText' = CountShown(polled'.resp) /\ freqText' = freqText]_vars

C23_Witness ==
  /\ polled = [by |-> "count", resp |-> <<"c", "o", "u", "n", "t", "=", "7", "7">>]
  /\ countText = <<"7", "7">>
  /\ freqText = <<"1", "2", "3", ".", "4", "5">>

(***************************************************************************)
(* C24.  As claimed: a failed connect leaves no open transport.            *)
(***************************************************************************)
C24_AsClaimed == (call.op = "connect" /\ ret = "False") => ~serOpen

(***************************************************************************)
(* C24.  After disconnect the transport of the facade is closed and        *)
(* nothing was raised; while it is closed every operation but connect      *)
(* writes nothing and leaves it closed, so nothing is written until a      *)
(* connect succeeds; disconnect on a closed facade changes nothing; a      *)
(* failed connect returns failure, opens nothing and leaves the transport  *)
(* the facade holds as it was: closed if it was closed, open if it was     *)
(* open.                                                                   *)
(***************************************************************************)
C24_ClosedUntilConnected ==
  [][/\ call'.op = "disconnect" =>
          ~serOpen' /\ ret' = "None" /\ out' = <<>> /\ orphans' = orphans
     /\ (~serOpen /\ call'.op # "connect") =>
          /\ ~serOpen'
          /\ \A i \in 1..Len(out') : out'[i].op # "write"
     /\ (~serOpen /\ call'.op = "connect") => (serOpen' <=> ret' = "True")
     /\ (call'.op = "connect" /\ ret' = "False") =>
          serOpen' = serOpen /\ orphans' = orphans /\ out' = <<>>]_vars

C24_Witness ==
  /\ call.op = "disconnect"
  /\ ~serOpen
  /\ ret = "None"
  /\ orphans = 1

\* Sum of a sequence of numbers.
RECURSIVE SumSeq(_)
SumSeq(q) == IF q = <<>> THEN 0 ELSE Head(q) + SumSeq(Tail(q))

(***************************************************************************)
(* C25.  The transfer is stop-and-wait.  Every chunk but the one written   *)
(* last has had as many 0x58 bytes read for it as it has bytes (eight)     *)
(* before the next one was written; at most one chunk, so at most 8 bytes  *)
(* of payload, is written and not yet acknowledged; the payload written is *)
(* whole chunks of 8 bytes, never more than the payload's length, which is *)
(* a multiple of 8.                                                        *)
(***************************************************************************)
C25_StopAndWait ==
  /\ Len(ChunkWrites) - Len(chunkAcks) \in {0, 1}
  /\ \A k \in DOMAIN chunkAcks :
       chunkAcks[k] = Len(ChunkWrites[k].bytes)
  /\ pc = "ack" =>
       /\ Len(ChunkWrites) = Len(chunkAcks) + 1
       /\ CountX(stream) < Len(ChunkWrites[Len(ChunkWrites)].bytes)
  /\ Len(PayloadWritten) - SumSeq(chunkAcks) <= chunk_size
  /\ Len(PayloadWritten) = Min(chunk_size * Len(ChunkWrites), total)
  /\ total % chunk_size = 0 =>
       /\ Len(PayloadWritten) % chunk_size = 0
       /\ \A k \in DOMAIN ChunkWrites : Len(ChunkWrites[k].bytes) = chunk_size

C25_Witness ==
  /\ pc = "ack"
  /\ Len(ChunkWrites) = 2
  /\ chunkAcks = <<8>>
  /\ CountX(stream) = 7

(***************************************************************************)
(* C26.  As claimed: the flush comes before the first handshake write, a   *)
(* flush that fails does not end the call, and no byte that was pending    *)
(* in the input before the call is taken for the handshake                 *)
(* acknowledgment.                                                         *)
(***************************************************************************)
C26_AsClaimed ==
  [][/\ wire' # <<>> =>
          (wire'[1] = Flush /\ wire'[2] = Write("upload", Frame(INIT_CTL)))
     /\ ~(pc = "hs" /\ pending # <<>> /\ pc' = "erase")]_vars

(***************************************************************************)
(* C27.  A call on an open transport with a bank that is none of 1, 2, 3,  *)
(* 4 returns False at once: no flush, no write, no read, no call of the    *)
(* observer.  So the control byte of every erase frame written is one of   *)
(* 0xF1..0xF4 and that of every begin frame one of 0x01..0x04.             *)
(***************************************************************************)
C27_BadBankTouchesNothing ==
  /\ (pc # "idle" /\ bank \notin 1..4) =>
       /\ pc = "returned"
       /\ result = "False"
       /\ failPhase \in {"closed", "bank"}
       /\ wire = <<>>
       /\ reports = <<>>
  /\ failPhase = "bank" => (bank \notin 1..4 /\ wire = <<>> /\ reports = <<>>)
  /\ \A i \in DOMAIN wire :
       IsFrameWrite(wire[i]) =>
         /\ i \in {2, 4, 6}
         /\ i = 2 => wire[i].bytes[9] = 165
         /\ i = 4 => wire[i].bytes[9] \in 241..244
         /\ i = 6 => wire[i].bytes[9] \in 1..4

C27_Witness ==
  /\ serOpen
  /\ pc = "returned"
  /\ bank = 5
  /\ obs = "none"
  /\ failPhase = "bank"
  /\ result = "False"

(***************************************************************************)
(* C28.  As claimed: every call of upload_arbitrary returns in the end,    *)
(* whatever the transport delivers, bytes other than 0x58 without end      *)
(* included, as long as each read returns within its timeout.              *)
(***************************************************************************)
C28_AsClaimed == (pc \in {"hs", "erase", "begin", "ack", "report"}) ~> (pc = "returned")

(***************************************************************************)
(* C29.  While a chunk waits, the acknowledgments counted never exceed the *)
(* chunk's length: every read asks for the chunk's length less what has    *)
(* been counted and collected, so no 'X' beyond the chunk's last one is    *)
(* ever taken from the transport; and the count is the chunk's length,     *)
(* exactly, when the engine goes on to the next chunk.                     *)
(***************************************************************************)
C29_AckedWithinChunk ==
  /\ pc = "ack" =>
       /\ acked < Len(Chunk(sent))
       /\ need = Len(Chunk(sent)) - acked
       /\ ReadRequest = Len(Chunk(sent)) - acked - Len(buf)
       /\ ReadRequest >= 1
       /\ acked + XCount(buf) <= Len(Chunk(sent))
       /\ CountX(stream) <= Len(Chunk(sent))
  /\ pc = "report" =>
       /\ acked = Len(ChunkWrites[Len(ChunkWrites)].bytes)
       /\ CountX(stream) = acked
  /\ (pc = "returned" /\ failPhase = "transfer") =>
       /\ acked < Len(ChunkWrites[Len(ChunkWrites)].bytes)
       /\ CountX(stream) = acked

C29_Witness ==
  /\ pc = "ack"
  /\ acked = 6
  /\ buf = <<88>>
  /\ ReadRequest = 1

\* The writes of the upload so far, and all the writes of a call that
\* succeeds: the three frames, then the chunks of data.
UploadWrites == SelectSeq(wire, IsUploadWrite)
AllWrites ==
  <<Frame(INIT_CTL), Frame(ERASE_BASE + bank), Frame(BEGIN_BASE + bank)>>
    \o [k \in 1..ChunkCount(Len(data)) |-> Chunk(chunk_size * (k - 1))]

\* The course of a call does not depend on its observer.
AsWithoutObserver ==
  /\ \A i \in DOMAIN UploadWrites :
       /\ i <= Len(AllWrites)
       /\ UploadWrites[i].bytes = AllWrites[i]
  /\ result \in {"none", "True", "False"}
  /\ result = "True" <=>
       /\ pc = "returned"
       /\ Len(UploadWrites) = Len(AllWrites)
       /\ Len(chunkAcks) = ChunkCount(Len(data))
  /\ obs = "raises" => Len(reports) = Len(chunkAcks)

(***************************************************************************)
(* C30.  An observer that raises changes nothing of the upload.  With it,  *)
(* as with no observer, the bytes written are the frames and chunks of the *)
(* call in their order, whatever was reported; no error leaves the call;   *)
(* the call returns True exactly when every chunk was written and          *)
(* acknowledged; after every report the loop goes on as it does with no    *)
(* observer: the next chunk is written, or True is returned after the      *)
(* last; and the observer is called again for every later chunk.           *)
(***************************************************************************)
C30_RaisingObserverIsSwallowed ==
  [][(obs' \in {"none", "raises"} /\ pc' # "idle") =>
       /\ AsWithoutObserver'
       /\ pc = "report" =>
            \/ /\ pc' = "ack"
               /\ wire' = Append(wire, Write("upload", Chunk(sent)))
            \/ /\ pc' = "returned"
               /\ result' = "True"
               /\ wire' = wire
               /\ sent = Len(data)]_vars

C30_Witness ==
  /\ obs = "raises"
  /\ pc = "returned"
  /\ result = "True"
  /\ Len(reports) >= 2
  /\ Len(ChunkWrites) = Len(reports)

\* The five commands of a sweep of mode m, each with its settle delay.
IsPrefix(h, t) == Len(h) <= Len(t) /\ SubSeq(t, 1, Len(h)) = h
FiveCommands(o, m) ==
  /\ Len(o) = 10
  /\ \A i \in {1, 3, 5, 7, 9} : o[i].op = "write" /\ o[i + 1] = Sleep
  /\ IsPrefix(<<"b", "b">>, o[1].text)
  /\ IsPrefix(<<"b", "e">>, o[3].text)
  /\ IsPrefix(<<"b", "t">>, o[5].text)
  /\ o[7].text = <<"b", "m">> \o Str(m) \o <<"\n">>
  /\ o[9].text = <<"b", "r", "1", "\n">>

(***************************************************************************)
(* C31.  As claimed: a sweep button sends the five commands bb, be, bt,    *)
(* bm (0 linear, 1 logarithmic), br1 in this order when connected and the  *)
(* begin, end and time fields all parse (float, float, int), and sends     *)
(* nothing otherwise.                                                      *)
(***************************************************************************)
C31_AsClaimed ==
  [][(call'.op \in {"start_lin_sweep", "start_log_sweep"} /\ serOpen' = serOpen) =>
       IF /\ serOpen
          /\ FloatOf(fields'.begin).err = "none"
          /\ FloatOf(fields'.end).err = "none"
          /\ IntOf(fields'.time).err = "none"
       THEN FiveCommands(out', IF call'.op = "start_lin_sweep" THEN 0 ELSE 1)
       ELSE out' = <<>>]_vars

\* undo() called until the undo stack is empty.
RECURSIVE UndoAll(_)
UndoAll(c) == IF c.undo_stack = <<>> THEN c ELSE UndoAll(UndoOf(c))

(***************************************************************************)
(* C32.  As claimed: after tool changes and mouse presses, moves and       *)
(* releases that recorded fewer than max_undo actions, with no button held *)
(* and no stroke open, undoing until the undo stack is empty gives back    *)
(* the all-zero buffer.                                                    *)
(***************************************************************************)
C32_AsClaimed ==
  (buttons = {} /\ current_action = <<>> /\ Len(undo_stack) < MaxUndo) =>
    UndoAll(Canvas).points = [i \in 0..(NumPoints - 1) |-> 0]

\* A step that recorded an action: the undo stack changed and no action
\* went from it to the redo stack.
ActionRecorded ==
  /\ undo_stack' # undo_stack
  /\ ~(undo_stack # <<>> /\ redo_stack' = Append(redo_stack, undo_stack[Len(undo_stack)]))
  /\ ~(redo_stack # <<>> /\ undo_stack' = Append(undo_stack, redo_stack[Len(redo_stack)]))

(***************************************************************************)
(* C33.  As claimed: recording an action empties the redo stack and keeps  *)
(* the undo stack within max_undo; undo moves one action to the redo       *)
(* stack and redo moves one back, so that undo followed at once by redo    *)
(* leaves the buffer and both stacks as they were; undo on an empty undo   *)
(* stack and redo on an empty redo stack change nothing.                   *)
(***************************************************************************)
C33_AsClaimed ==
  [][/\ ActionRecorded => redo_stack' = <<>> /\ Len(undo_stack') <= MaxUndo
     /\ undo_stack # <<>> =>
          /\ Len(UndoOf(Canvas).undo_stack) = Len(undo_stack) - 1
          /\ Len(UndoOf(Canvas).redo_stack) = Len(redo_stack) + 1
          /\ RedoOf(UndoOf(Canvas)) = Canvas
     /\ undo_stack = <<>> => UndoOf(Canvas) = Canvas
     /\ redo_stack = <<>> => RedoOf(Canvas) = Canvas]_vars

====
